---- MODULE Spec2Model ----
(***************************************************************************)
(* A model of the question-paper generator's core: the vector store of     *)
(* app/deps.py (FAISS index file + SQLite meta table), the job records of  *)
(* app/worker.py, app/worker_dev.py and app/enhanced_worker.py, the text   *)
(* chunker of app/ingest/chunker.py, the question planner of               *)
(* app/enhanced_worker.py, the response parser and paper template of       *)
(* app/templates/sample_paper_template.py and the search of                *)
(* app/rag/retriever.py.                                                   *)
(***************************************************************************)
EXTENDS Integers, Sequences, FiniteSets, TLC

(***************************************************************************)
(* Bounds of the model.                                                    *)
(***************************************************************************)
NCallers == 2       \* concurrent callers of add_embeddings
MaxBatch == 5       \* largest batch of a call, calls made one after the other
MaxCalls == 3       \* calls made in one behaviour, one after the other
ConcBatch == 2      \* largest batch of a call, calls interleaved
ConcCalls == 2      \* calls made in one behaviour, calls interleaved
NRuns == 2          \* jobs run in one process
NPrefix == 2        \* distinct values of the first 8 characters of a uuid4
NQueryRuns == 1     \* jobs run in one process, status queries observed
MaxRaw == 3         \* characters of a text given to chunks()
MaxSize == 3        \* self.size is 1..MaxSize
MaxOlap == 3        \* self.olap is 0..MaxOlap
MaxExtra == 2       \* iterations followed beyond the length of the text
ScenarioLen == 2500 \* characters of the cleaned text of the scenario
NFairRuns == 2      \* jobs run in one process, each run to its end
MaxChapters == 3    \* chapter weightages of one request
NDocs == 2          \* distinct document ids the chapters can name
MaxTotal == 3       \* config.total_questions is 1..MaxTotal, or the default
MaxNumbered == 21   \* numbered lines of a model response
MaxSub == 16        \* sub-question lines of a model response
MaxItems == 21      \* items of a list given to create_question_paper
SearchBatch == 2    \* largest batch added to the store that is searched
SearchCalls == 2    \* add_embeddings calls made on the store that is searched
MaxStore == 4       \* vectors in the store that is searched
MaxK == 1           \* k of a search is 1..MaxK
NSearches == 1      \* searches made in one behaviour
NIngests == 2       \* ingest_pdf runs in one behaviour
MaxOver == 2        \* chunks of a document beyond one full batch
MaxTopics == 2      \* focus topics of a chapter
MaxNeeded == 6      \* questions_needed is 1 or MaxNeeded
MaxPages == 33      \* pages of a file are 1 or MaxPages
MaxTimeout == 1     \* timeout of a chat_sync call is 1..MaxTimeout seconds
NChats == 2         \* chat_sync calls in one behaviour

VARIABLES
    \* ---- app/deps.py: the persisted store and the calls in flight
    indexExists,    \* os.path.exists(DB_PATH)
    indexFile,      \* the vectors of the index persisted at DB_PATH, in order
    meta,           \* the rows of table meta: id -> data
    callPc,         \* per caller: where its add_embeddings call stands
    callIx,         \* per caller: ix, the index object it loaded
    callStart,      \* per caller: start_id
    callVecs,       \* per caller: the argument vecs
    callMetas,      \* per caller: the argument metas
    callErr,        \* per caller: the exception the call raised, or "none"
    callAt,         \* per caller: the statement that raised
    nCalls,         \* add_embeddings calls made so far
    \* ---- the job records of the three workers and the jobs run
    devJobs,        \* worker_dev.job_status: id -> record
    enhJobs,        \* enhanced_worker.enhanced_job_status: id -> record
    wkStatus,       \* worker.job_status: id -> status string
    wkResults,      \* worker.job_results: id -> result
    taskQueue,      \* worker.task_queue
    usedUuids,      \* the values uuid.uuid4() has returned
    runKind,        \* per job: the function that runs it
    runState,       \* per job: "idle", "running" or "returned"
    runPc,          \* per job: progress updates made so far in its try block
    runId,          \* per job: job_id / task_id
    qry,            \* the last status query and what it returned
    \* ---- app/ingest/chunker.py: one run of TextChunker.chunks
    chText,         \* text, after clean()
    chSize,         \* self.size
    chOlap,         \* self.olap
    chStart,        \* start
    chIdx,          \* chunk_idx
    chOut,          \* what the generator has yielded so far
    chPc,           \* "loop" while the while loop runs, then "done"
    chIter,         \* iterations of the while loop made
    \* ---- enhanced_worker.py: one call of calculate_question_distribution
    plChapters,     \* chapter_weightages: the objects, as the call leaves them
    plDeclared,     \* weightage_percentage of each chapter as it was passed
    plTotal,        \* config.total_questions
    plI,            \* chapters the loop has handled
    plRemaining,    \* remaining_questions
    plCounts,       \* questions_count of each chapter handled
    plDist,         \* distribution: document_id -> entry
    plPc,           \* "idle", "normalize", "loop" or "done"
    \* ---- sample_paper_template.py: one call of
    \* parse_llm_response_to_questions, made by a generation job
    psLines,        \* llm_response, line by line
    psQuestions,    \* questions
    psResult,       \* the list returned
    psPc,           \* "idle", "numbered", "sub", "sentences", "pad", "done";
                    \* then, in the job, "template" or "ended"
    psJob,          \* status of the job that made the call
    \* ---- sample_paper_template.py: create_question_paper, then
    \* validate_question_paper_format on what it returned
    tpItems,        \* questions_list as it was passed
    tpRepl,         \* replacements, in insertion order: <<key, value>>
    tpDone,         \* replacements applied to formatted_paper
    tpPaper,        \* formatted_paper
    tpChecks,       \* checks of validate_question_paper_format
    tpPc,           \* "idle", "pad", "build", "replace", "returned",
                    \* "validated" or "raised"
    \* ---- rag/retriever.py: one call of search at a time
    srPc,           \* where the call stands; "idle" before, "done" after
    srK,            \* k
    srFilter,       \* meta_filter: None, or the document the records must be of
    srIx,           \* ix
    srIds,          \* ids, nearest first
    srResult,       \* the list returned
    srErr,          \* the exception caught inside the call, or "none"
    srOutcome,      \* "none", "returned", or "raised" to the caller
    nSearches,      \* searches made so far
    \* ---- enhanced_worker.py: one run of generate_professional_question_paper
    gnChapters,     \* chapter_weightages
    gnTotal,        \* config.total_questions
    gnPlan,         \* question_distribution: the entries in the dict's order
    gnI,            \* entries of the plan handled so far
    gnAll,          \* all_questions
    gnProcessed,    \* chapter names in the order their entry was handled
    gnFailed,       \* the entries that gave no items, each with the cause
    gnStatus,       \* status of the job's record
    gnPc,           \* "idle", "plan", "sample", "loop", "template", "pdf", "ended"
    \* ---- worker.py, worker_dev.py: ingest_pdf, one run at a time
    igKind,         \* "wk" (worker.py) or "dev" (worker_dev.py)
    igDoc,          \* doc_id
    igChunks,       \* len(chunks)
    igBatch,        \* batches handed to the store so far
    igBase,         \* ix.ntotal when the run began
    igJob,          \* status of the job
    igDocStatus,    \* status column of the documents table, by doc_id
    igFailedAt,     \* the batch in which the run failed, or -1
    igRuns,         \* runs begun so far
    igPc,           \* "idle", "embed", "adding", "finish", "handler", "ended"
    \* ---- rag/deepseek_client.py: chat_sync, one call at a time
    csPc,           \* the caller: "idle", "joining", "alive", "get", "ended"
    csTimeout,      \* timeout
    csClock,        \* seconds since thread.start()
    csQueue,        \* result_queue
    csAlive,        \* what thread.is_alive() gave
    csOutcomes,     \* what the calls came to, one entry per return or raise
    thPc,           \* the thread: "none", "start", "run", "close", "dead"
    nChats,         \* calls made so far
    \* ---- app/enhanced_worker.py: one call of get_diverse_content_from_chapter
    dvTopics,       \* chapter_info["focus_topics"]
    dvNeeded,       \* questions_needed
    dvQueries,      \* base_queries, once the focus topics are added
    dvSearched,     \* the queries search_by_doc_id was called with, in order
    dvAll,          \* all_chunks
    dvResult,       \* the list returned
    dvPc,           \* "idle", "search" or "done"
    \* ---- app/worker.py: one run of ingest_pdf, from the pages to the store
    wpRaw,          \* the text of the odd pages of the file
    wpPages,        \* the number of pages of the file
    wpPage,         \* pages read so far
    wpChunks,       \* chunks: (chunk_text, page_num)
    wpBatch,        \* batches stored so far
    wpJob,          \* job_status[task_id]
    wpDocStatus,    \* the status of the document
    wpPc            \* where the run stands

storeVars == <<indexExists, indexFile, meta, callPc, callIx, callStart,
               callVecs, callMetas, callErr, callAt, nCalls>>

jobVars == <<devJobs, enhJobs, wkStatus, wkResults, taskQueue, usedUuids,
             runKind, runState, runPc, runId, qry>>

chunkVars == <<chText, chSize, chOlap, chStart, chIdx, chOut, chPc, chIter>>

planVars == <<plChapters, plDeclared, plTotal, plI, plRemaining, plCounts,
              plDist, plPc>>

parseVars == <<psLines, psQuestions, psResult, psPc, psJob>>

tplVars == <<tpItems, tpRepl, tpDone, tpPaper, tpChecks, tpPc>>

searchVars == <<srPc, srK, srFilter, srIx, srIds, srResult, srErr, srOutcome,
                nSearches>>

\* ---- components added after the search
genVars == <<gnChapters, gnTotal, gnPlan, gnI, gnAll, gnProcessed,
           gnFailed, gnStatus, gnPc>>
ingVars == <<igKind, igDoc, igChunks, igBatch, igBase, igJob,
           igDocStatus, igFailedAt, igRuns, igPc>>
chatVars == <<csPc, csTimeout, csClock, csQueue, csAlive, csOutcomes,
            thPc, nChats>>
divVars == <<dvTopics, dvNeeded, dvQueries, dvSearched, dvAll,
           dvResult, dvPc>>
pipeVars == <<wpRaw, wpPages, wpPage, wpChunks, wpBatch, wpJob,
            wpDocStatus, wpPc>>
restVars == <<genVars, ingVars, chatVars, divVars, pipeVars>>
notGen == <<storeVars, jobVars, chunkVars, planVars, parseVars, tplVars,
    searchVars, ingVars, chatVars, divVars, pipeVars>>
notIng == <<storeVars, jobVars, chunkVars, planVars, parseVars, tplVars,
    searchVars, genVars, chatVars, divVars, pipeVars>>
notChat == <<storeVars, jobVars, chunkVars, planVars, parseVars, tplVars,
    searchVars, genVars, ingVars, divVars, pipeVars>>
notDiv == <<storeVars, jobVars, chunkVars, planVars, parseVars, tplVars,
    searchVars, genVars, ingVars, chatVars, pipeVars>>
notPipe == <<storeVars, jobVars, chunkVars, planVars, parseVars, tplVars,
    searchVars, genVars, ingVars, chatVars, divVars>>
\* What an ingestion, which writes to the store, leaves alone among them.
ingOthers == <<genVars, chatVars, divVars, pipeVars>>
\* What the run of worker.ingest_pdf leaves alone among them.
pipeOthers == <<genVars, ingVars, chatVars, divVars>>
\* ---- end

vars == <<storeVars, jobVars, chunkVars, planVars, parseVars, tplVars,
          searchVars, restVars>>

\* What the actions of one component leave alone.
notStore == <<jobVars, chunkVars, planVars, parseVars, tplVars,
    searchVars, restVars>>
notJobs == <<storeVars, chunkVars, planVars, parseVars, tplVars,
    searchVars, restVars>>
notChunk == <<storeVars, jobVars, planVars, parseVars, tplVars,
    searchVars, restVars>>
notPlan == <<storeVars, jobVars, chunkVars, parseVars, tplVars,
    searchVars, restVars>>
notParse == <<storeVars, jobVars, chunkVars, planVars, tplVars,
    searchVars, restVars>>
notTpl == <<storeVars, jobVars, chunkVars, planVars, parseVars,
    searchVars, restVars>>

\* What a search leaves alone besides the store.
notSearch == <<jobVars, chunkVars, planVars, parseVars, tplVars, restVars>>

Callers == 1..NCallers

(***************************************************************************)
(* app/deps.py                                                             *)
(***************************************************************************)

\* The vector and the metadata record a caller supplies together as item k
\* of its b-th batch.  Both carry the tag <<b, k>>, so that alignment of the
\* two stores can be stated.
Vec(b, k) == [vec |-> <<b, k>>]
Meta(b, k) == [data |-> <<b, k>>]

\* ix.ntotal
NTotal(ix) == Len(ix)

\* start_id = ix.ntotal, read before ix.add (deps.py:46)
StartIdAfterAdd(ix, vecs) == NTotal(ix) + Len(vecs)
StartId(ix, vecs) == NTotal(ix)

\* the ids of the rows of one executemany: start_id + i for i, m in enumerate(metas)
RowIds(start, metas) == {start + i : i \in 0..(Len(metas) - 1)}

\* the table after the INSERTs of one batch
InsertRows(tbl, start, metas) ==
    [id \in DOMAIN tbl \cup RowIds(start, metas) |->
        IF id \in DOMAIN tbl THEN tbl[id] ELSE metas[id - start + 1]]

InitStore ==
    /\ indexExists = FALSE
    /\ indexFile = <<>>
    /\ meta = <<>>
    /\ callPc = [c \in Callers |-> "idle"]
    /\ callIx = [c \in Callers |-> <<>>]
    /\ callStart = [c \in Callers |-> 0]
    /\ callVecs = [c \in Callers |-> <<>>]
    /\ callMetas = [c \in Callers |-> <<>>]
    /\ callErr = [c \in Callers |-> "none"]
    /\ callAt = [c \in Callers |-> "none"]
    /\ nCalls = 0

\* add_embeddings(vecs, metas) is entered with a batch of n items.
Call(c, n) ==
    /\ callPc[c] \in {"idle", "done", "raised"}
    /\ nCalls' = nCalls + 1
    /\ callVecs' = [callVecs EXCEPT ![c] = [k \in 1..n |-> Vec(nCalls + 1, k)]]
    /\ callMetas' = [callMetas EXCEPT ![c] = [k \in 1..n |-> Meta(nCalls + 1, k)]]
    /\ callPc' = [callPc EXCEPT ![c] = "exists"]
    /\ callErr' = [callErr EXCEPT ![c] = "none"]
    /\ callAt' = [callAt EXCEPT ![c] = "none"]
    /\ callIx' = [callIx EXCEPT ![c] = <<>>]
    /\ callStart' = [callStart EXCEPT ![c] = 0]
    /\ UNCHANGED <<indexExists, indexFile, meta>>
    /\ UNCHANGED notStore

\* get_index: if not os.path.exists(DB_PATH)
CheckExists(c) ==
    /\ callPc[c] = "exists"
    /\ callPc' = [callPc EXCEPT ![c] = IF indexExists THEN "load" ELSE "create"]
    /\ UNCHANGED <<indexExists, indexFile, meta, callIx, callStart, callVecs,
                   callMetas, callErr, callAt, nCalls>>
    /\ UNCHANGED notStore

\* get_index: index = faiss.IndexFlatL2(dim); faiss.write_index(index, DB_PATH)
CreateIndex(c) ==
    /\ callPc[c] = "create"
    /\ indexExists' = TRUE
    /\ indexFile' = <<>>
    /\ callPc' = [callPc EXCEPT ![c] = "load"]
    /\ UNCHANGED <<meta, callIx, callStart, callVecs, callMetas, callErr,
                   callAt, nCalls>>
    /\ UNCHANGED notStore

\* get_index: return faiss.read_index(DB_PATH); then start_id = ix.ntotal
LoadIndex(c) ==
    /\ callPc[c] = "load"
    /\ callIx' = [callIx EXCEPT ![c] = indexFile]
    /\ callStart' = [callStart EXCEPT ![c] = StartId(indexFile, callVecs[c])]
    /\ callPc' = [callPc EXCEPT ![c] = "write"]
    /\ UNCHANGED <<indexExists, indexFile, meta, callVecs, callMetas, callErr,
                   callAt, nCalls>>
    /\ UNCHANGED notStore

\* ix.add(vecs); faiss.write_index(ix, DB_PATH)
WriteIndex(c) ==
    /\ callPc[c] = "write"
    /\ callIx' = [callIx EXCEPT ![c] = callIx[c] \o callVecs[c]]
    /\ indexFile' = callIx[c] \o callVecs[c]
    /\ indexExists' = TRUE
    /\ callPc' = [callPc EXCEPT ![c] = "meta"]
    /\ UNCHANGED <<meta, callStart, callVecs, callMetas, callErr, callAt, nCalls>>
    /\ UNCHANGED notStore

\* with sqlite3.connect(META_PATH) as con: executemany(INSERT ...); con.commit().
\* id is the PRIMARY KEY: a row whose id is taken raises IntegrityError, and the
\* connection's context manager rolls the whole batch back.
MetaCommit(c) ==
    /\ callPc[c] = "meta"
    /\ IF RowIds(callStart[c], callMetas[c]) \cap DOMAIN meta = {}
       THEN /\ meta' = InsertRows(meta, callStart[c], callMetas[c])
            /\ callPc' = [callPc EXCEPT ![c] = "done"]
            /\ UNCHANGED <<callErr, callAt>>
       ELSE /\ meta' = meta
            /\ callPc' = [callPc EXCEPT ![c] = "raised"]
            /\ callErr' = [callErr EXCEPT ![c] = "IntegrityError"]
            /\ callAt' = [callAt EXCEPT ![c] = "meta"]
    /\ UNCHANGED <<indexExists, indexFile, callIx, callStart, callVecs,
                   callMetas, nCalls>>
    /\ UNCHANGED notStore

\* A statement of add_embeddings raises (FAISS not importable, the index file
\* or the database not readable or writable).  Nothing is caught or undone
\* inside add_embeddings: the exception leaves the call where it stands.
CallRaises(c) ==
    /\ callPc[c] \in {"exists", "create", "load", "write", "meta"}
    /\ callPc' = [callPc EXCEPT ![c] = "raised"]
    /\ callErr' = [callErr EXCEPT ![c] = "OSError"]
    /\ callAt' = [callAt EXCEPT ![c] = callPc[c]]
    /\ UNCHANGED <<indexExists, indexFile, meta, callIx, callStart, callVecs,
                   callMetas, nCalls>>
    /\ UNCHANGED notStore

\* No call is between its entry and its return or raise.
Quiescent == \A c \in Callers : callPc[c] \in {"idle", "done", "raised"}

\* Calls from independent jobs, interleaved statement by statement.
NextStore ==
    \/ \E c \in Callers, n \in 1..ConcBatch :
           nCalls < ConcCalls /\ Call(c, n)
    \/ \E c \in Callers : CheckExists(c)
    \/ \E c \in Callers : CreateIndex(c)
    \/ \E c \in Callers : LoadIndex(c)
    \/ \E c \in Callers : WriteIndex(c)
    \/ \E c \in Callers : MetaCommit(c)
    \/ \E c \in Callers : CallRaises(c)

\* Calls made one after the other, none of them raising in a statement.
NextStoreSeq ==
    \/ \E c \in Callers, n \in 1..MaxBatch :
           nCalls < MaxCalls /\ Quiescent /\ Call(c, n)
    \/ \E c \in Callers : CheckExists(c)
    \/ \E c \in Callers : CreateIndex(c)
    \/ \E c \in Callers : LoadIndex(c)
    \/ \E c \in Callers : WriteIndex(c)
    \/ \E c \in Callers : MetaCommit(c)

(***************************************************************************)
(* app/worker_dev.py, app/enhanced_worker.py, app/worker.py: job records   *)
(***************************************************************************)
Runs == 1..NRuns

\* uuid.uuid4(): its first 8 characters and the rest.  str(uuid.uuid4()) is
\* the pair, str(uuid.uuid4())[:8] keeps the first component only.
Uuids == {<<p, x>> : p \in 1..NPrefix, x \in 1..NRuns}

\* The values uuid.uuid4() can return next.  A uuid4 is random and, whole,
\* never repeats; its first 8 characters can.  Values are named in order of
\* first use: the next prefix is one seen before or the first unseen one, and
\* the rest is the first not yet used with that prefix.
NextUuids ==
    {u \in Uuids :
        /\ u \notin usedUuids
        /\ \A x \in 1..(u[2] - 1) : <<u[1], x>> \in usedUuids
        /\ \A p \in 1..(u[1] - 1) : \E x \in 1..NRuns : <<p, x>> \in usedUuids}
FullId(u) == u
ShortId(u) == <<u[1]>>
JobIds == {FullId(u) : u \in Uuids} \cup {ShortId(u) : u \in Uuids}

\* Python's None, and a str as the sequence of its pieces
None == [none |-> TRUE]
Str(parts) == [str |-> parts]
\* str(e) of the exception a job catches: it may be the empty string
ErrTexts == {<<>>, <<"e">>}

Kinds == {"dev_ingest", "dev_generate", "enh_generate", "wk_ingest",
          "wk_generate", "wk_async"}

\* job_id of a job of each kind (worker_dev.py:35,127; enhanced_worker.py:124;
\* worker.py:95,153)
JobIdOf(kind, u) ==
    IF kind \in {"dev_generate", "enh_generate"} THEN ShortId(u) ELSE FullId(u)

\* The progress values a job writes with the default status "processing",
\* in the order of its update calls, before its final update.
CheckpointsDip(kind) ==
    CASE kind = "dev_ingest" -> <<10, 30, 50, 80>>
      [] kind = "dev_generate" -> <<10, 25, 40, 55, 70, 80, 90>>
      [] kind = "enh_generate" -> <<5, 15, 25, 70, 60, 90>>
      [] OTHER -> <<>>
Checkpoints(kind) ==
    CASE kind = "dev_ingest" -> <<10, 30, 50, 80>>
      [] kind = "dev_generate" -> <<10, 25, 40, 55, 70, 80, 90>>
      [] kind = "enh_generate" -> <<5, 15, 25, 70, 80, 90>>
      [] OTHER -> <<>>

\* create_job: the record a new worker_dev job gets
CreatedRecordPending(id) ==
    [id |-> id, task |-> "ingest_pdf", status |-> "pending", progress |-> 0,
     result |-> None, error |-> None]
CreatedRecord(id) ==
    [id |-> id, task |-> "ingest_pdf", status |-> "processing", progress |-> 0,
     result |-> None, error |-> None]

\* update_job_progress / update_enhanced_job_progress: the record is replaced
UpdateRecord(progress, status, result, error) ==
    [progress |-> progress, status |-> status, result |-> result, error |-> error]

\* d[k] = v with the fields v lacks kept from the value there was
PutMerging(d, k, v) ==
    [x \in DOMAIN d \cup {k} |->
        IF x = k THEN (IF k \in DOMAIN d THEN v @@ d[k] ELSE v) ELSE d[x]]
\* d[k] = v
Put(d, k, v) == [x \in DOMAIN d \cup {k} |-> IF x = k THEN v ELSE d[x]]

\* error_msg = f"Error ...: {str(e)}"
ErrorMsg(kind, e) ==
    Str(<<(CASE kind = "dev_ingest" -> "Error processing PDF: "
             [] kind = "dev_generate" -> "Error generating question paper: "
             [] OTHER -> "Error generating professional question paper: ")>> \o e)

\* f"failed: {str(e)}"
WkFailed(e) == <<"failed: ">> \o e

InitJobs ==
    /\ devJobs = <<>>
    /\ enhJobs = <<>>
    /\ wkStatus = <<>>
    /\ wkResults = <<>>
    /\ taskQueue = <<>>
    /\ usedUuids = {}
    /\ runKind = [r \in Runs |-> "none"]
    /\ runState = [r \in Runs |-> "idle"]
    /\ runPc = [r \in Runs |-> 0]
    /\ runId = [r \in Runs |-> <<>>]
    /\ qry = [store |-> "none", id |-> <<>>, known |-> FALSE, result |-> None,
              wkResult |-> None]

\* The job store a kind of job writes to.
IsDev(kind) == kind \in {"dev_ingest", "dev_generate"}
IsEnh(kind) == kind = "enh_generate"
IsWk(kind) == kind \in {"wk_ingest", "wk_generate", "wk_async"}

\* One update call of job r on the store of its kind.
WriteUpdate(r, rec) ==
    /\ devJobs' = IF IsDev(runKind[r]) THEN Put(devJobs, runId[r], rec) ELSE devJobs
    /\ enhJobs' = IF IsEnh(runKind[r]) THEN Put(enhJobs, runId[r], rec) ELSE enhJobs

\* A job function is entered: the id is drawn, and what is written before the
\* try block is written (create_job in worker_dev.ingest_pdf, "processing"
\* in worker.py; the generate functions of worker_dev and enhanced_worker
\* write nothing yet).  For a function wrapped by async_task the wrapper
\* runs instead: job_status[task_id] = "pending"; task_queue.put(...).
\* Jobs are numbered in the order they start.
StartJob(r, kind, u) ==
    /\ runState[r] = "idle"
    /\ \A q \in 1..(r - 1) : runState[q] # "idle"
    /\ u \in NextUuids
    /\ usedUuids' = usedUuids \cup {u}
    /\ runKind' = [runKind EXCEPT ![r] = kind]
    /\ runId' = [runId EXCEPT ![r] = JobIdOf(kind, u)]
    /\ runState' = [runState EXCEPT ![r] = IF kind = "wk_async" THEN "queued"
                                           ELSE "running"]
    /\ runPc' = [runPc EXCEPT ![r] = 0]
    /\ devJobs' = IF kind = "dev_ingest"
                  THEN Put(devJobs, FullId(u), CreatedRecord(FullId(u)))
                  ELSE devJobs
    /\ wkStatus' = CASE kind \in {"wk_ingest", "wk_generate"} ->
                           Put(wkStatus, FullId(u), <<"processing">>)
                     [] kind = "wk_async" ->
                           Put(wkStatus, FullId(u), <<"pending">>)
                     [] OTHER -> wkStatus
    /\ taskQueue' = IF kind = "wk_async" THEN Append(taskQueue, r) ELSE taskQueue
    /\ UNCHANGED <<enhJobs, wkResults, qry>>
    /\ UNCHANGED notJobs

\* The work up to the next update call returned: update(job_id, progress).
Advance(r) ==
    /\ runState[r] = "running"
    /\ runPc[r] < Len(Checkpoints(runKind[r]))
    /\ runPc' = [runPc EXCEPT ![r] = runPc[r] + 1]
    /\ WriteUpdate(r, UpdateRecord(Checkpoints(runKind[r])[runPc[r] + 1],
                                   "processing", None, None))
    /\ UNCHANGED <<wkStatus, wkResults, taskQueue, usedUuids, runKind, runState,
                   runId, qry>>
    /\ UNCHANGED notJobs

\* The last stage returned: update(job_id, 100, "completed", result) in
\* worker_dev and enhanced_worker.
Complete(r) ==
    /\ runState[r] = "running"
    /\ runKind[r] \in {"dev_ingest", "dev_generate", "enh_generate"}
    /\ runPc[r] = Len(Checkpoints(runKind[r]))
    /\ runState' = [runState EXCEPT ![r] = "returned"]
    /\ runPc' = [runPc EXCEPT ![r] = 0]
    /\ WriteUpdate(r, UpdateRecord(100, "completed", Str(<<"result">>), None))
    /\ UNCHANGED <<wkStatus, wkResults, taskQueue, usedUuids, runKind, runId, qry>>
    /\ UNCHANGED notJobs

\* A statement of the try block raised: except Exception as e:
\* update(job_id, 0, "failed", None, error_msg).  In the generate functions
\* only a print precedes the first update, so they raise after it.
RaiseSilently(r, e) ==
    /\ runState[r] = "running"
    /\ runKind[r] \in {"dev_ingest", "dev_generate", "enh_generate"}
    /\ runKind[r] = "dev_ingest" \/ runPc[r] >= 1
    /\ runState' = [runState EXCEPT ![r] = "returned"]
    /\ runPc' = [runPc EXCEPT ![r] = 0]
    /\ UNCHANGED <<devJobs, enhJobs>>
    /\ UNCHANGED <<wkStatus, wkResults, taskQueue, usedUuids, runKind, runId, qry>>
    /\ UNCHANGED notJobs
Raise(r, e) ==
    /\ runState[r] = "running"
    /\ runKind[r] \in {"dev_ingest", "dev_generate", "enh_generate"}
    /\ runKind[r] = "dev_ingest" \/ runPc[r] >= 1
    /\ runState' = [runState EXCEPT ![r] = "returned"]
    /\ runPc' = [runPc EXCEPT ![r] = 0]
    /\ WriteUpdate(r, UpdateRecord(0, "failed", None, ErrorMsg(runKind[r], e)))
    /\ UNCHANGED <<wkStatus, wkResults, taskQueue, usedUuids, runKind, runId, qry>>
    /\ UNCHANGED notJobs

\* worker.ingest_pdf: every batch stored and the document status updated:
\* job_results[task_id] = result; job_status[task_id] = "completed"
WkComplete(r) ==
    /\ runState[r] = "running"
    /\ runKind[r] = "wk_ingest"
    /\ runState' = [runState EXCEPT ![r] = "returned"]
    /\ wkResults' = Put(wkResults, runId[r], Str(<<"result">>))
    /\ wkStatus' = Put(wkStatus, runId[r], <<"completed">>)
    /\ UNCHANGED <<devJobs, enhJobs, taskQueue, usedUuids, runKind, runPc,
                   runId, qry>>
    /\ UNCHANGED notJobs

\* worker.ingest_pdf / worker.generate_question_paper: except Exception as e:
\* job_status[task_id] = f"failed: {str(e)}".  generate_question_paper
\* always gets here: its first call passes hybrid_search a keyword the
\* function does not take (worker.py:158, retriever.py:140).
WkRaise(r, e) ==
    /\ runState[r] = "running"
    /\ runKind[r] \in {"wk_ingest", "wk_generate"}
    /\ runState' = [runState EXCEPT ![r] = "returned"]
    /\ wkStatus' = Put(wkStatus, runId[r], WkFailed(e))
    /\ UNCHANGED <<devJobs, enhJobs, wkResults, taskQueue, usedUuids, runKind,
                   runPc, runId, qry>>
    /\ UNCHANGED notJobs

\* process_queue: task_queue.get(); func(*args) returned:
\* job_results[task_id] = result; job_status[task_id] = "completed"
ProcessQueueDone ==
    /\ taskQueue # <<>>
    /\ taskQueue' = Tail(taskQueue)
    /\ runState' = [runState EXCEPT ![Head(taskQueue)] = "returned"]
    /\ wkResults' = Put(wkResults, runId[Head(taskQueue)], Str(<<"result">>))
    /\ wkStatus' = Put(wkStatus, runId[Head(taskQueue)], <<"completed">>)
    /\ UNCHANGED <<devJobs, enhJobs, usedUuids, runKind, runPc, runId, qry>>
    /\ UNCHANGED notJobs

\* process_queue: task_queue.get(); func(*args) raised:
\* job_status[task_id] = f"failed: {str(e)}"
ProcessQueueRaise(e) ==
    /\ taskQueue # <<>>
    /\ taskQueue' = Tail(taskQueue)
    /\ runState' = [runState EXCEPT ![Head(taskQueue)] = "returned"]
    /\ wkStatus' = Put(wkStatus, runId[Head(taskQueue)], WkFailed(e))
    /\ UNCHANGED <<devJobs, enhJobs, wkResults, usedUuids, runKind, runPc,
                   runId, qry>>
    /\ UNCHANGED notJobs

\* job_status.get(job_id, {"progress": 0, "status": "not_found"})
NotFound == [progress |-> 0, status |-> "not_found"]
GetJobStatus(jobs, id) == IF id \in DOMAIN jobs THEN jobs[id] ELSE NotFound

\* worker.get_job_status
WkGetJobStatus(id) ==
    LET status == IF id \in DOMAIN wkStatus THEN wkStatus[id] ELSE <<"not_found">>
        result == IF id \in DOMAIN wkResults THEN wkResults[id] ELSE None
    IN [status |-> status,
        result |-> IF status = <<"completed">> THEN result ELSE None]

\* The job dictionary after a status query: dict.get leaves it as it is.
AfterGetInserting(jobs, id) == Put(jobs, id, GetJobStatus(jobs, id))
AfterGet(jobs, id) == jobs

\* get_job_status(job_id) of worker_dev
QueryDev(id) ==
    /\ qry' = [store |-> "dev", id |-> id, known |-> id \in DOMAIN devJobs,
               result |-> GetJobStatus(devJobs, id), wkResult |-> None]
    /\ devJobs' = AfterGet(devJobs, id)
    /\ UNCHANGED <<enhJobs, wkStatus, wkResults, taskQueue, usedUuids, runKind,
                   runState, runPc, runId>>
    /\ UNCHANGED notJobs

\* get_enhanced_job_status(job_id)
QueryEnh(id) ==
    /\ qry' = [store |-> "enh", id |-> id, known |-> id \in DOMAIN enhJobs,
               result |-> GetJobStatus(enhJobs, id), wkResult |-> None]
    /\ enhJobs' = AfterGet(enhJobs, id)
    /\ UNCHANGED <<devJobs, wkStatus, wkResults, taskQueue, usedUuids, runKind,
                   runState, runPc, runId>>
    /\ UNCHANGED notJobs

\* get_job_status(job_id) of worker
QueryWk(id) ==
    /\ qry' = [store |-> "wk", id |-> id, known |-> id \in DOMAIN wkStatus,
               result |-> None, wkResult |-> WkGetJobStatus(id)]
    /\ wkStatus' = AfterGet(wkStatus, id)
    /\ UNCHANGED <<devJobs, enhJobs, wkResults, taskQueue, usedUuids, runKind,
                   runState, runPc, runId>>
    /\ UNCHANGED notJobs

\* Jobs of one process, interleaved update by update.
NextJobs ==
    \/ \E r \in Runs, kind \in Kinds, u \in Uuids : StartJob(r, kind, u)
    \/ \E r \in Runs : Advance(r)
    \/ \E r \in Runs : Complete(r)
    \/ \E r \in Runs, e \in ErrTexts : Raise(r, e)
    \/ \E r \in Runs : WkComplete(r)
    \/ \E r \in Runs, e \in ErrTexts : WkRaise(r, e)
    \/ ProcessQueueDone
    \/ \E e \in ErrTexts : ProcessQueueRaise(e)

\* The jobs whose end is awaited.  The endpoints of main_dev call a job
\* function and return when it has returned, and the queue of worker.py is
\* emptied by one thread, so a job starts when the one before it has returned.
FairRuns == 1..NFairRuns
StartJobInTurn(r, kind, u) ==
    /\ \A q \in FairRuns : runState[q] \in {"idle", "returned"}
    /\ StartJob(r, kind, u)
NextFair ==
    \/ \E r \in FairRuns, kind \in Kinds, u \in Uuids :
          StartJobInTurn(r, kind, u)
    \/ \E r \in FairRuns : Advance(r)
    \/ \E r \in FairRuns : Complete(r)
    \/ \E r \in FairRuns, e \in ErrTexts : Raise(r, e)
    \/ \E r \in FairRuns : WkComplete(r)
    \/ \E r \in FairRuns, e \in ErrTexts : WkRaise(r, e)
    \/ ProcessQueueDone
    \/ \E e \in ErrTexts : ProcessQueueRaise(e)

\* The same jobs, with status queries between their updates.
QueryRuns == 1..NQueryRuns
NextQuery ==
    \/ \E r \in QueryRuns, kind \in Kinds, u \in Uuids : StartJob(r, kind, u)
    \/ \E r \in QueryRuns : Advance(r)
    \/ \E r \in QueryRuns : Complete(r)
    \/ \E r \in QueryRuns, e \in ErrTexts : Raise(r, e)
    \/ \E r \in QueryRuns : WkComplete(r)
    \/ \E r \in QueryRuns, e \in ErrTexts : WkRaise(r, e)
    \/ ProcessQueueDone
    \/ \E e \in ErrTexts : ProcessQueueRaise(e)
    \/ \E id \in JobIds : QueryDev(id)
    \/ \E id \in JobIds : QueryEnh(id)
    \/ \E id \in JobIds : QueryWk(id)

(***************************************************************************)
(* app/ingest/chunker.py                                                   *)
(***************************************************************************)
\* The characters of a text, by what clean() and chunks() do with them: a
\* word character, sentence terminators, a space, another whitespace
\* character, a character outside the allow-list, and NUL.
RawChars == {"a", ".", "?", " ", "\n", "@", "nul"}
IsSpace(c) == c \in {" ", "\n"}
Terminators == {".", "!", "?"}
\* [^\w\s\.\,\?\!\;\:\-\(\)\[\]\{\}] does not match c
Allowed(c) == c = "a" \/ IsSpace(c) \/ c \in Terminators

\* s.strip()
Strip(s) ==
    IF \A i \in 1..Len(s) : IsSpace(s[i]) THEN <<>>
    ELSE LET first == CHOOSE i \in 1..Len(s) :
                          ~IsSpace(s[i]) /\ \A j \in 1..(i - 1) : IsSpace(s[j])
             last == CHOOSE i \in 1..Len(s) :
                         ~IsSpace(s[i]) /\ \A j \in (i + 1)..Len(s) : IsSpace(s[j])
         IN SubSeq(s, first, last)

\* re.sub(r'\s+', ' ', s): the first character of every run of whitespace
\* stays, as a space
CollapseSpace(s) ==
    LET Keep(i) == ~IsSpace(s[i]) \/ i = 1 \/ ~IsSpace(s[i - 1])
        kept == SelectSeq([i \in 1..Len(s) |-> i], Keep)
    IN [k \in 1..Len(kept) |-> IF IsSpace(s[kept[k]]) THEN " " ELSE s[kept[k]]]

\* TextChunker.clean
Clean(txt) ==
    LET NotNul(c) == c # "nul"
    IN Strip(SelectSeq(CollapseSpace(SelectSeq(txt, NotNul)), Allowed))

\* s[from:to], for 0 <= from <= to
Slice(s, from, to) ==
    SubSeq(s, from + 1, IF to < Len(s) THEN to ELSE Len(s))

\* s.rfind(c)
RFind(s, c) ==
    LET at == {i \in 1..Len(s) : s[i] = c}
    IN IF at = {} THEN -1 ELSE (CHOOSE i \in at : \A j \in at : j <= i) - 1

\* max(chunk_text.rfind('.'), chunk_text.rfind('!'), chunk_text.rfind('?'))
LastSentenceEnd(s) ==
    LET found == {RFind(s, c) : c \in Terminators}
    IN CHOOSE m \in found : \A n \in found : n <= m

\* last_sentence_end > len(chunk_text) * 0.7.  The product is a float; for
\* the window lengths that get here (at most MaxSize + 1, and the default
\* size) it compares with an integer as the exact 7 * len / 10 does.
PastThreshold(last, len) == 10 * last > 7 * len

\* start = end - self.olap; if start <= 0: start = end
NextStartStopping(end, olap, len) == IF end >= len THEN len ELSE end - olap
NextStart(end, olap, len) == IF end - olap <= 0 THEN end ELSE end - olap

\* No chunks() call is being made.
InitChunkIdle ==
    /\ chText = <<>>
    /\ chSize = 0
    /\ chOlap = 0
    /\ chStart = 0
    /\ chIdx = 0
    /\ chOut = <<>>
    /\ chPc = "idle"
    /\ chIter = 0

\* chunks(full_text) up to the loop: text = self.clean(full_text); start = 0;
\* chunk_idx = 0
EnterChunks(raw, size, olap) ==
    /\ chText = Clean(raw)
    /\ chSize = size
    /\ chOlap = olap
    /\ chStart = 0
    /\ chIdx = 0
    /\ chOut = <<>>
    /\ chPc = "loop"
    /\ chIter = 0

\* Any short text, with any size >= 1 and overlap >= 0.
RawTexts == UNION {[1..n -> RawChars] : n \in 0..MaxRaw}
InitChunk ==
    \E raw \in RawTexts, size \in 1..MaxSize, olap \in 0..MaxOlap :
        EnterChunks(raw, size, olap)

\* TextChunker(): size 1000, overlap 200
DefaultSize == 1000
DefaultOverlap == 200

\* Texts whose cleaned form has ScenarioLen characters: word characters, but
\* for two places before and after the 70% mark of a window where there may
\* be a terminator or a space, after something clean() removes.
Marked(t, p, c) == [t EXCEPT ![p] = c]
ScenarioTexts ==
    {pre \o Marked(Marked([i \in 1..ScenarioLen |-> "a"], p1, c1), p2, c2) :
        pre \in {<<>>, <<"\n">>, <<"nul", "@">>},
        p1 \in {500, 900, 1000}, c1 \in {"a", ".", "?", " "},
        p2 \in {1700, 2450}, c2 \in {"a", ".", " "}}
InitScenario ==
    \E raw \in ScenarioTexts : EnterChunks(raw, DefaultSize, DefaultOverlap)

\* One iteration of the while loop with the test of line 38 left out: a
\* window of spaces is yielded too, as the empty string.
ChunkStepYieldingBlank ==
    /\ chPc = "loop"
    /\ chStart < Len(chText)
    /\ chIter < Len(chText) + MaxExtra
    /\ LET window == Slice(chText, chStart, chStart + chSize)
           last == LastSentenceEnd(window)
           trim == /\ chStart + chSize < Len(chText)
                   /\ PastThreshold(last, Len(window))
           chunk_text == IF trim THEN Slice(window, 0, last + 1) ELSE window
           end == IF trim THEN chStart + last + 1 ELSE chStart + chSize
           yields == TRUE
       IN /\ chOut' = IF yields
                      THEN Append(chOut, [text |-> Strip(chunk_text),
                                          idx |-> chIdx, start |-> chStart])
                      ELSE chOut
          /\ chIdx' = IF yields THEN chIdx + 1 ELSE chIdx
          /\ chStart' = NextStart(end, chOlap, Len(chText))
    /\ chIter' = chIter + 1
    /\ UNCHANGED <<chText, chSize, chOlap, chPc>>
    /\ UNCHANGED notChunk
\* One iteration of the while loop.  A loop that has run MaxExtra times more
\* than the text has characters is followed no further.
ChunkStep ==
    /\ chPc = "loop"
    /\ chStart < Len(chText)
    /\ chIter < Len(chText) + MaxExtra
    /\ LET window == Slice(chText, chStart, chStart + chSize)
           last == LastSentenceEnd(window)
           trim == /\ chStart + chSize < Len(chText)
                   /\ PastThreshold(last, Len(window))
           chunk_text == IF trim THEN Slice(window, 0, last + 1) ELSE window
           end == IF trim THEN chStart + last + 1 ELSE chStart + chSize
           yields == Strip(chunk_text) # <<>>
       IN /\ chOut' = IF yields
                      THEN Append(chOut, [text |-> Strip(chunk_text),
                                          idx |-> chIdx, start |-> chStart])
                      ELSE chOut
          /\ chIdx' = IF yields THEN chIdx + 1 ELSE chIdx
          /\ chStart' = NextStart(end, chOlap, Len(chText))
    /\ chIter' = chIter + 1
    /\ UNCHANGED <<chText, chSize, chOlap, chPc>>
    /\ UNCHANGED notChunk

\* while start < len(text) is false: the generator is exhausted.
ChunksReturn ==
    /\ chPc = "loop"
    /\ chStart >= Len(chText)
    /\ chPc' = "done"
    /\ UNCHANGED <<chText, chSize, chOlap, chStart, chIdx, chOut, chIter>>
    /\ UNCHANGED notChunk

NextChunk == ChunkStep \/ ChunksReturn

(***************************************************************************)
(* app/enhanced_worker.py: calculate_question_distribution                 *)
(***************************************************************************)
\* ProfessionalQuestionConfig.total_questions: int = 20
DefaultTotal == 20

\* weightage_percentage values (0-100) and document ids of a request
Pcts == {0, 25, 35, 40, 50, 100}
Docs == 1..NDocs
Totals == (1..MaxTotal) \cup {DefaultTotal}
\* total_questions of a generation job
GenTotals == {MaxTotal, DefaultTotal}

\* A ChapterWeightage: chapter_name is the chapter's place in the request
Chapter(i, doc, pct) == [chapter_name |-> i, document_id |-> doc,
                         weightage_percentage |-> pct]
ChapterLists(n) ==
    {[i \in 1..n |-> Chapter(i, docs[i], pcts[i])] :
        docs \in [1..n -> Docs], pcts \in [1..n -> Pcts]}

\* sum(ch.weightage_percentage for ch in chapter_weightages)
RECURSIVE SumPct(_)
SumPct(chs) ==
    IF chs = <<>> THEN 0
    ELSE Head(chs).weightage_percentage + SumPct(Tail(chs))

\* int((ch.weightage_percentage / total_weightage) * 100).  The quotient and
\* the product are floats; for the percentages of Pcts and their sums the
\* result is the exact floor of 100 * pct / total.
NormalizedPct(pct, total) == (100 * pct) \div total

\* int((chapter.weightage_percentage / 100) * config.total_questions): for
\* percentages 0..100 and totals up to 40 the exact floor of pct * total / 100
Share(pct, total) == (pct * total) \div 100

\* max(1, questions_count)
AtLeastOne(n) == IF n < 1 THEN 1 ELSE n

InitPlanIdle ==
    /\ plChapters = <<>>
    /\ plDeclared = <<>>
    /\ plTotal = 0
    /\ plI = 0
    /\ plRemaining = 0
    /\ plCounts = <<>>
    /\ plDist = <<>>
    /\ plPc = "idle"

\* calculate_question_distribution(chapter_weightages, config) is called with
\* percentages whose sum is positive.
InitPlan ==
    \E n \in 1..MaxChapters, total \in Totals : \E chs \in ChapterLists(n) :
        /\ SumPct(chs) > 0
        /\ plChapters = chs
        /\ plDeclared = [i \in 1..Len(chs) |-> chs[i].weightage_percentage]
        /\ plTotal = total
        /\ plI = 0
        /\ plRemaining = 0
        /\ plCounts = <<>>
        /\ plDist = <<>>
        /\ plPc = "normalize"

\* total_weightage = sum(...); if total_weightage != 100: every chapter's
\* percentage is replaced; distribution = {}; remaining_questions = total
Normalize ==
    /\ plPc = "normalize"
    /\ plChapters' =
         IF SumPct(plChapters) # 100
         THEN [i \in 1..Len(plChapters) |->
                  [plChapters[i] EXCEPT !.weightage_percentage =
                      NormalizedPct(plChapters[i].weightage_percentage,
                                    SumPct(plChapters))]]
         ELSE plChapters
    /\ plRemaining' = plTotal
    /\ plPc' = "loop"
    /\ UNCHANGED <<plDeclared, plTotal, plI, plCounts, plDist>>
    /\ UNCHANGED notPlan

\* The dictionary after distribution[chapter.document_id] = entry
SetEntry(dist, chapter, entry) == Put(dist, chapter.document_id, entry)

\* One iteration of for i, chapter in enumerate(chapter_weightages)
PlanChapter ==
    /\ plPc = "loop"
    /\ plI < Len(plChapters)
    /\ LET chapter == plChapters[plI + 1]
           last == plI = Len(plChapters) - 1
           questions_count ==
               IF last THEN plRemaining
               ELSE Share(chapter.weightage_percentage, plTotal)
       IN /\ plRemaining' = IF last THEN plRemaining
                            ELSE plRemaining - questions_count
          /\ plCounts' = Append(plCounts, questions_count)
          /\ plDist' = SetEntry(plDist, chapter,
                           [questions |-> AtLeastOne(questions_count),
                            chapter_name |-> chapter.chapter_name,
                            weightage |-> chapter.weightage_percentage])
    /\ plI' = plI + 1
    /\ UNCHANGED <<plChapters, plDeclared, plTotal, plPc>>
    /\ UNCHANGED notPlan

\* return distribution
PlanReturn ==
    /\ plPc = "loop"
    /\ plI = Len(plChapters)
    /\ plPc' = "done"
    /\ UNCHANGED <<plChapters, plDeclared, plTotal, plI, plRemaining, plCounts,
                   plDist>>
    /\ UNCHANGED notPlan

NextPlan == Normalize \/ PlanChapter \/ PlanReturn

(***************************************************************************)
(* app/templates/sample_paper_template.py: parse_llm_response_to_questions *)
(***************************************************************************)
\* len(numbered_matches) >= 15, len(sub_matches) >= 15
MinMatches == 15
\* worker_dev.py: if len(questions_list) < 15: raise
MinExtracted == 15
\* while len(questions) < 20, [:20]
PaperQuestions == 20

\* The lines of a response, by what the three patterns do with them:
\*   "N"   a numbered line "7. text" whose text holds no digit
\*   "ND"  a numbered line whose text holds a digit ("3. What happened in 1947")
\*   "S"   a sub-question line "b) text" whose text holds none of the letters
\*         a to e and no digit
\*   "Q"   a sentence of more than 20 characters that ends in "?"
\*   "P"   any other line
LineKinds == {"N", "ND", "S", "Q", "P"}

\* n copies of a line
Repeat(kind, n) == [i \in 1..n |-> kind]

\* Responses: a run of numbered lines, the last of which may hold a digit,
\* and a run of sub-question lines, in either order, and a last line.
Responses ==
    {IF subFirst THEN Repeat("S", s) \o Repeat("N", n) \o nd \o tail
                 ELSE Repeat("N", n) \o nd \o Repeat("S", s) \o tail :
        n \in 0..MaxNumbered, s \in 0..MaxSub, nd \in {<<>>, <<"ND">>},
        tail \in {<<>>, <<"Q">>, <<"P">>}, subFirst \in BOOLEAN}

\* A list item: the stripped text of line n, or f"Generated question {n}"
LineItem(n) == [kind |-> "line", n |-> n]
Generated(n) == [kind |-> "generated", n |-> n]

\* l[:n]
Take(l, n) == SubSeq(l, 1, IF Len(l) < n THEN Len(l) ELSE n)

\* The lines found by a pattern, in order, as items
Matches(found) == [k \in 1..Len(found) |-> LineItem(found[k])]

\* re.findall(numbered_pattern, ...): (?:^|\n)\s*\d+\.\s*([^0-9\n]+?) up to
\* the end of the line: the group stops at a digit, so a line whose text
\* holds one is not matched
NumberedMatches(lines) ==
    LET IsNumbered(i) == lines[i] = "N"
    IN Matches(SelectSeq([i \in 1..Len(lines) |-> i], IsNumbered))

\* re.findall(sub_question_pattern, ...): [a-e]\)\s*([^a-e\n]+?) followed,
\* after whitespace, by another marker, by a number and a dot, or by the end
\* of the response
SubMatches(lines) ==
    LET IsSub(i) == /\ lines[i] = "S"
                    /\ i = Len(lines) \/ lines[i + 1] \in {"S", "N", "ND"}
    IN Matches(SelectSeq([i \in 1..Len(lines) |-> i], IsSub))

\* re.split(r'[.!?]+', llm_response): the pieces between the terminators; no
\* piece holds a "?", the terminators are what the text is split at
Sentences(lines) ==
    [i \in 1..Len(lines) |-> [line |-> i, long |-> lines[i] # "P", mark |-> FALSE]]

\* [s.strip() for s in sentences if len(s.strip()) > 20 and '?' in s]
MeaningfulSentences(lines) ==
    LET Meaningful(p) == p.long /\ p.mark
        kept == SelectSeq(Sentences(lines), Meaningful)
    IN [k \in 1..Len(kept) |-> LineItem(kept[k].line)]

InitParseIdle ==
    /\ psLines = <<>>
    /\ psQuestions = <<>>
    /\ psResult = <<>>
    /\ psPc = "idle"
    /\ psJob = "none"

\* parse_llm_response_to_questions(raw_response), called by a generation job
InitParse ==
    \E lines \in Responses :
        /\ psLines = lines
        /\ psQuestions = <<>>
        /\ psResult = <<>>
        /\ psPc = "numbered"
        /\ psJob = "processing"

\* Method 1: if len(numbered_matches) >= 15: questions.extend(...[:20])
ParseNumbered ==
    /\ psPc = "numbered"
    /\ psQuestions' = IF Len(NumberedMatches(psLines)) >= MinMatches
                      THEN Take(NumberedMatches(psLines), PaperQuestions)
                      ELSE psQuestions
    /\ psPc' = "sub"
    /\ UNCHANGED <<psLines, psResult, psJob>>
    /\ UNCHANGED notParse

\* Method 2: if len(questions) < 20 and len(sub_matches) >= 15:
\* questions = [...sub_matches[:20]]
ParseSub ==
    /\ psPc = "sub"
    /\ psQuestions' = IF /\ Len(psQuestions) < PaperQuestions
                         /\ Len(SubMatches(psLines)) >= MinMatches
                      THEN Take(SubMatches(psLines), PaperQuestions)
                      ELSE psQuestions
    /\ psPc' = "sentences"
    /\ UNCHANGED <<psLines, psResult, psJob>>
    /\ UNCHANGED notParse

\* Method 3: if len(questions) < 20: questions.extend(meaningful_sentences[:20])
ParseSentences ==
    /\ psPc = "sentences"
    /\ psQuestions' = IF Len(psQuestions) < PaperQuestions
                      THEN psQuestions \o
                           Take(MeaningfulSentences(psLines), PaperQuestions)
                      ELSE psQuestions
    /\ psPc' = "pad"
    /\ UNCHANGED <<psLines, psResult, psJob>>
    /\ UNCHANGED notParse

\* while len(questions) < 20:
\*     questions.append(f"Generated question {len(questions) + 1}")
ParsePad ==
    /\ psPc = "pad"
    /\ Len(psQuestions) < PaperQuestions
    /\ psQuestions' = Append(psQuestions, Generated(Len(psQuestions) + 1))
    /\ UNCHANGED <<psLines, psResult, psPc, psJob>>
    /\ UNCHANGED notParse

\* return questions[:20]
ParseReturn ==
    /\ psPc = "pad"
    /\ Len(psQuestions) >= PaperQuestions
    /\ psResult' = Take(psQuestions, PaperQuestions)
    /\ psPc' = "done"
    /\ UNCHANGED <<psLines, psQuestions, psJob>>
    /\ UNCHANGED notParse

\* worker_dev.generate_question_paper, after the parser has returned:
\* if len(questions_list) < 15: raise Exception(...); the except clause of the
\* job sets the status "failed"
JobCheckCount ==
    /\ psPc = "done"
    /\ psJob = "processing"
    /\ IF Len(psResult) < MinExtracted
       THEN psJob' = "failed" /\ psPc' = "ended"
       ELSE psJob' = psJob /\ psPc' = "template"
    /\ UNCHANGED <<psLines, psQuestions, psResult>>
    /\ UNCHANGED notParse

\* The template is applied and the PDF is written: the job is "completed".
JobComplete ==
    /\ psPc = "template"
    /\ psJob' = "completed"
    /\ psPc' = "ended"
    /\ UNCHANGED <<psLines, psQuestions, psResult>>
    /\ UNCHANGED notParse

\* A later step of the job raises (the PDF cannot be written): "failed".
JobRaises ==
    /\ psPc = "template"
    /\ psJob' = "failed"
    /\ psPc' = "ended"
    /\ UNCHANGED <<psLines, psQuestions, psResult>>
    /\ UNCHANGED notParse

NextParse ==
    \/ ParseNumbered
    \/ ParseSub
    \/ ParseSentences
    \/ ParsePad
    \/ ParseReturn
    \/ JobCheckCount
    \/ JobComplete
    \/ JobRaises

(***************************************************************************)
(* app/templates/sample_paper_template.py: SamplePaperTemplate and         *)
(* validate_question_paper_format                                          *)
(***************************************************************************)
\* A paper is a sequence of pieces of text:
\*   Lit(name)     a fixed phrase of the template
\*   Main          a line that begins "n. Solve any four"
\*   SubLine(l)    the beginning of a line, "a)" to "e)"
\*   Marker(k, n)  text in braces: {paper_code}, {Q1_A} .. {Q4_E} (key "Q",
\*                 numbered 1..20 in template order), or any other {...}
\*   Text(k, n)    text without braces or line breaks: item n, placeholder n,
\*                 the paper code
\*   Space         whitespace
Lit(name) == [t |-> "lit", key |-> name, n |-> 0]
Main == [t |-> "main", key |-> "", n |-> 0]
SubLine(l) == [t |-> "sub", key |-> l, n |-> 0]
Marker(k, n) == [t |-> "marker", key |-> k, n |-> n]
Text(k, n) == [t |-> "text", key |-> k, n |-> n]
Space == [t |-> "space", key |-> "", n |-> 0]

\* chr(ord('A') + sub_q), in lower case as the template's line labels
Letters == <<"a", "b", "c", "d", "e">>

\* question_index + 1 of the slot of set q_set and sub-question sub_q
Slot(q_set, sub_q) == (q_set - 1) * 5 + sub_q + 1

\* "n. Solve any four sub-questions." and its five lines "a) {Qn_A} 5"
QuestionSet(q_set) ==
    <<Main>> \o
    [j \in 1..15 |->
        CASE j % 3 = 1 -> SubLine(Letters[(j + 2) \div 3])
          [] j % 3 = 2 -> Marker("Q", Slot(q_set, (j - 2) \div 3))
          [] OTHER -> Lit("5")]

\* TEMPLATE_80_MARKS
Template ==
    <<Lit("May 2024"), Marker("paper_code", 0), Lit("Time : 3 Hours"),
      Lit("Marks : 80"), Lit("Instructions :")>>
    \o QuestionSet(1) \o QuestionSet(2) \o <<Lit("(P.T.O.)")>>
    \o QuestionSet(3) \o QuestionSet(4) \o <<Lit("sssssss")>>

\* The items a list can hold: item n is plain text, but one item of the
\* list may be text in surrounding whitespace, text with braces in it, text
\* that names a marker of the template, text with a line break before "b)"
\* or before "5. Solve any four", or the empty string.
SpecialItems(n) ==
    {<<Space, Text("item", n), Space>>,
     <<Text("item", n), Marker("x", 0)>>,
     <<Text("item", n), Marker("Q", 7)>>,
     <<Text("item", n), Marker("Q", 1)>>,
     <<Marker("paper_code", 0)>>,
     <<Text("item", n), SubLine("b"), Text("item", n)>>,
     <<Text("item", n), Main>>,
     <<>>}
ItemListsOf(len) ==
    {[i \in 1..len |-> <<Text("item", i)>>]} \cup
    UNION {{[i \in 1..len |-> IF i = at THEN sp ELSE <<Text("item", i)>>] :
               sp \in SpecialItems(at)} :
           at \in {1, 6, 7, len} \cap (1..len)}
ItemLists == UNION {ItemListsOf(len) : len \in 0..MaxItems}

\* value.strip(): whitespace at either end goes
StripItem(v) ==
    IF \A i \in 1..Len(v) : v[i] = Space THEN <<>>
    ELSE LET first == CHOOSE i \in 1..Len(v) :
                          v[i] # Space /\ \A j \in 1..(i - 1) : v[j] = Space
             last == CHOOSE i \in 1..Len(v) :
                         v[i] # Space /\ \A j \in (i + 1)..Len(v) : v[j] = Space
         IN SubSeq(v, first, last)

\* paper.replace("{key}", value): every occurrence of the marker is replaced
RECURSIVE ReplaceAll(_, _, _)
ReplaceAll(paper, marker, value) ==
    IF paper = <<>> THEN <<>>
    ELSE (IF Head(paper) = marker THEN value ELSE <<Head(paper)>>)
         \o ReplaceAll(Tail(paper), marker, value)

InitTplIdle ==
    /\ tpItems = <<>>
    /\ tpRepl = <<>>
    /\ tpDone = 0
    /\ tpPaper = <<>>
    /\ tpChecks = <<>>
    /\ tpPc = "idle"

\* create_question_paper(questions_list)
InitTpl ==
    \E items \in ItemLists :
        /\ tpItems = items
        /\ tpRepl = <<>>
        /\ tpDone = 0
        /\ tpPaper = <<>>
        /\ tpChecks = <<>>
        /\ tpPc = "pad"

\* if len(questions_list) < 20: questions_list.extend(
\*     [f"Question {i+1} placeholder"] * (20 - len(questions_list)))
\* The f-string is evaluated first, and no name i is bound in the method or
\* in the module: NameError.
PadRaises ==
    /\ tpPc = "pad"
    /\ Len(tpItems) < PaperQuestions
    /\ tpPc' = "raised"
    /\ UNCHANGED <<tpItems, tpRepl, tpDone, tpPaper, tpChecks>>
    /\ UNCHANGED notTpl

\* len(questions_list) >= 20: nothing is added
PadSkipped ==
    /\ tpPc = "pad"
    /\ Len(tpItems) >= PaperQuestions
    /\ tpPc' = "build"
    /\ UNCHANGED <<tpItems, tpRepl, tpDone, tpPaper, tpChecks>>
    /\ UNCHANGED notTpl

\* replacements[placeholder_key] of the slot numbered k
SlotValue(items, k) ==
    IF k - 1 < Len(items) THEN StripItem(items[k])
    ELSE <<Text("placeholder", k)>>

\* paper_code = cls.generate_paper_code(); replacements = {'paper_code': ...};
\* the two loops over q_set and sub_q; formatted_paper = cls.TEMPLATE_80_MARKS
BuildReplacements ==
    /\ tpPc = "build"
    /\ tpRepl' = <<<<Marker("paper_code", 0), <<Text("paper_code", 0)>>>>>> \o
                 [k \in 1..PaperQuestions |->
                     <<Marker("Q", Slot((k - 1) \div 5 + 1, (k - 1) % 5)),
                       SlotValue(tpItems,
                                 Slot((k - 1) \div 5 + 1, (k - 1) % 5))>>]
    /\ tpPaper' = Template
    /\ tpPc' = "replace"
    /\ UNCHANGED <<tpItems, tpDone, tpChecks>>
    /\ UNCHANGED notTpl

\* One iteration of for key, value in replacements.items()
ReplaceOne ==
    /\ tpPc = "replace"
    /\ tpDone < Len(tpRepl)
    /\ tpPaper' = ReplaceAll(tpPaper, tpRepl[tpDone + 1][1], tpRepl[tpDone + 1][2])
    /\ tpDone' = tpDone + 1
    /\ UNCHANGED <<tpItems, tpRepl, tpChecks, tpPc>>
    /\ UNCHANGED notTpl

\* return formatted_paper
TplReturn ==
    /\ tpPc = "replace"
    /\ tpDone = Len(tpRepl)
    /\ tpPc' = "returned"
    /\ UNCHANGED <<tpItems, tpRepl, tpDone, tpPaper, tpChecks>>
    /\ UNCHANGED notTpl

\* len(re.findall(...)) for a kind of piece
Count(paper, t) == Cardinality({i \in 1..Len(paper) : paper[i].t = t})

\* checks of validate_question_paper_format(paper_text)
Checks(paper) ==
    [has_marks_80 |-> \E i \in 1..Len(paper) : paper[i] = Lit("Marks : 80"),
     has_time_3_hours |-> \E i \in 1..Len(paper) : paper[i] = Lit("Time : 3 Hours"),
     has_4_main_questions |-> Count(paper, "main") = 4,
     has_20_sub_questions |-> Count(paper, "sub") = 20,
     has_instructions |-> \E i \in 1..Len(paper) : paper[i] = Lit("Instructions :"),
     has_pto |-> \E i \in 1..Len(paper) : paper[i] = Lit("(P.T.O.)"),
     has_proper_ending |-> \E i \in 1..Len(paper) : paper[i] = Lit("sssssss"),
     no_placeholders |-> Count(paper, "marker") = 0]

\* all(checks.values())
AllChecks(checks) == \A c \in DOMAIN checks : checks[c]

\* checks, is_valid = validate_question_paper_format(formatted_paper)
Validate ==
    /\ tpPc = "returned"
    /\ tpChecks' = Checks(tpPaper)
    /\ tpPc' = "validated"
    /\ UNCHANGED <<tpItems, tpRepl, tpDone, tpPaper>>
    /\ UNCHANGED notTpl

NextTpl ==
    \/ PadRaises
    \/ PadSkipped
    \/ BuildReplacements
    \/ ReplaceOne
    \/ TplReturn
    \/ Validate

(***************************************************************************)
(* app/rag/retriever.py: search                                            *)
(***************************************************************************)
\* The document a metadata record is of: the batches of one ingestion are of
\* one document.
DocOf(m) == m.data[1]

\* meta_filter values: None, or {"doc_id": d}
Filters == {0} \cup (1..(SearchCalls + 1))

\* all(chunk.get(k) == v for k, v in meta_filter.items())
Passes(m, filter) == filter = 0 \/ DocOf(m) = filter

\* min(k * 3, ix.ntotal)
Fetch(k, ix) == IF k * 3 < NTotal(ix) THEN k * 3 ELSE NTotal(ix)

\* ix.search(qvec, n): the ids of n vectors of the index, nearest first.
\* The distances depend on the query: any n distinct ids, in any order.
Nearest(ix, n) ==
    {ids \in [1..n -> 0..(NTotal(ix) - 1)] :
        \A i, j \in 1..n : i # j => ids[i] # ids[j]}

\* [i for i, id_val in enumerate(ids) if id_val != -1]
ValidIds(ids) == SelectSeq(ids, LAMBDA id : id # -1)

\* chunks: the records of the ids that have a row, each with its score (its
\* place in the ranking); then the filter; then the sort by score; then [:k]
Chunks(ids, tbl) ==
    LET rank == [i \in 1..Len(ids) |-> [id |-> ids[i], similarity_score |-> i]]
        HasRow(c) == c.id \in DOMAIN tbl
        found == SelectSeq(rank, HasRow)
    IN [i \in 1..Len(found) |->
           [id |-> found[i].id, data |-> tbl[found[i].id],
            similarity_score |-> found[i].similarity_score]]
\* Without if meta_filter: ... the chunks would be returned as they are.
Unfiltered(chunks, filter) == chunks
Filtered(chunks, filter) ==
    SelectSeq(chunks, LAMBDA c : Passes(c.data, filter))
RECURSIVE SortByScore(_)
SortByScore(chunks) ==
    IF chunks = <<>> THEN <<>>
    ELSE LET lo == CHOOSE i \in 1..Len(chunks) :
                       \A j \in 1..Len(chunks) :
                           /\ chunks[i].similarity_score <= chunks[j].similarity_score
                           /\ chunks[i].similarity_score = chunks[j].similarity_score
                              => i <= j
         IN <<chunks[lo]>> \o
            SortByScore([j \in 1..(Len(chunks) - 1) |->
                            IF j < lo THEN chunks[j] ELSE chunks[j + 1]])

InitSearchIdle ==
    /\ srPc = "idle"
    /\ srK = 0
    /\ srFilter = 0
    /\ srIx = <<>>
    /\ srIds = <<>>
    /\ srResult = <<>>
    /\ srErr = "none"
    /\ srOutcome = "none"
    /\ nSearches = 0

\* search(query, k, meta_filter) is called.
SearchCall(k, filter) ==
    /\ srPc \in {"idle", "done"}
    /\ nSearches < NSearches
    /\ nSearches' = nSearches + 1
    /\ srPc' = "embed"
    /\ srK' = k
    /\ srFilter' = filter
    /\ srIx' = <<>>
    /\ srIds' = <<>>
    /\ srResult' = <<>>
    /\ srErr' = "none"
    /\ srOutcome' = "none"
    /\ UNCHANGED storeVars
    /\ UNCHANGED notSearch

\* qvec = embed_batch([query]).astype("float32")
SearchEmbed ==
    /\ srPc = "embed"
    /\ srPc' = "exists"
    /\ UNCHANGED <<srK, srFilter, srIx, srIds, srResult, srErr, srOutcome,
                   nSearches>>
    /\ UNCHANGED storeVars
    /\ UNCHANGED notSearch

\* get_index: if not os.path.exists(DB_PATH)
SearchCheckExists ==
    /\ srPc = "exists"
    /\ srPc' = IF indexExists THEN "load" ELSE "create"
    /\ UNCHANGED <<srK, srFilter, srIx, srIds, srResult, srErr, srOutcome,
                   nSearches>>
    /\ UNCHANGED storeVars
    /\ UNCHANGED notSearch

\* get_index: faiss.write_index(faiss.IndexFlatL2(dim), DB_PATH)
SearchCreateIndex ==
    /\ srPc = "create"
    /\ indexExists' = TRUE
    /\ indexFile' = <<>>
    /\ srPc' = "load"
    /\ UNCHANGED <<srK, srFilter, srIx, srIds, srResult, srErr, srOutcome,
                   nSearches>>
    /\ UNCHANGED <<meta, callPc, callIx, callStart, callVecs, callMetas,
                   callErr, callAt, nCalls>>
    /\ UNCHANGED notSearch

\* ix = get_index(); if ix.ntotal == 0: return []
SearchLoadIndex ==
    /\ srPc = "load"
    /\ srIx' = indexFile
    /\ IF NTotal(indexFile) = 0
       THEN srPc' = "done" /\ srOutcome' = "returned"
       ELSE srPc' = "scan" /\ srOutcome' = srOutcome
    /\ UNCHANGED <<srK, srFilter, srIds, srResult, srErr, nSearches>>
    /\ UNCHANGED storeVars
    /\ UNCHANGED notSearch

\* scores, ids = ix.search(qvec, min(k * 3, ix.ntotal)); the invalid ids are
\* filtered out; if not ids: return []
SearchScan ==
    /\ srPc = "scan"
    /\ \E ids \in Nearest(srIx, Fetch(srK, srIx)) :
           /\ srIds' = ValidIds(ids)
           /\ IF ValidIds(ids) = <<>>
              THEN srPc' = "done" /\ srOutcome' = "returned"
              ELSE srPc' = "meta" /\ srOutcome' = srOutcome
    /\ UNCHANGED <<srK, srFilter, srIx, srResult, srErr, nSearches>>
    /\ UNCHANGED storeVars
    /\ UNCHANGED notSearch

\* The rows are read, the chunks built, filtered and sorted: return chunks[:k]
SearchReturn ==
    /\ srPc = "meta"
    /\ srResult' = Take(SortByScore(Filtered(Chunks(srIds, meta), srFilter)), srK)
    /\ srPc' = "done"
    /\ srOutcome' = "returned"
    /\ UNCHANGED <<srK, srFilter, srIx, srIds, srErr, nSearches>>
    /\ UNCHANGED storeVars
    /\ UNCHANGED notSearch

\* A statement of the try block raises (the embedding model, FAISS, the index
\* file, the database): except Exception as e: print(...); return []
SearchFails ==
    /\ srPc \in {"embed", "exists", "create", "load", "scan", "meta"}
    /\ srErr' = "Exception"
    /\ srResult' = <<>>
    /\ srPc' = "done"
    /\ srOutcome' = "returned"
    /\ UNCHANGED <<srK, srFilter, srIx, srIds, nSearches>>
    /\ UNCHANGED storeVars
    /\ UNCHANGED notSearch

\* A step of add_embeddings on the store that is searched.  The ingestion of
\* an upload and the search of a generation job are background tasks of one
\* process: their steps interleave.  The add_embeddings calls are made one
\* after the other and may raise.
StoreStep ==
    /\ \/ \E n \in 1..SearchBatch :
              /\ nCalls < SearchCalls
              /\ NTotal(indexFile) + n <= MaxStore
              /\ Quiescent
              /\ Call(1, n)
       \/ CheckExists(1)
       \/ CreateIndex(1)
       \/ LoadIndex(1)
       \/ WriteIndex(1)
       \/ MetaCommit(1)
       \/ CallRaises(1)
    /\ UNCHANGED searchVars

\* The store is built, and then searched once.
StoreStepFirst == srPc = "idle" /\ StoreStep
SearchBuiltStore(k, filter) == srPc = "idle" /\ SearchCall(k, filter)

NextSearchSeq ==
    \/ StoreStepFirst
    \/ \E k \in 1..MaxK, filter \in Filters : SearchBuiltStore(k, filter)
    \/ SearchEmbed
    \/ SearchCheckExists
    \/ SearchCreateIndex
    \/ SearchLoadIndex
    \/ SearchScan
    \/ SearchReturn
    \/ SearchFails

NextSearch ==
    \/ StoreStep
    \/ \E k \in 1..MaxK, filter \in Filters : SearchCall(k, filter)
    \/ SearchEmbed
    \/ SearchCheckExists
    \/ SearchCreateIndex
    \/ SearchLoadIndex
    \/ SearchScan
    \/ SearchReturn
    \/ SearchFails

(***************************************************************************)
(* app/enhanced_worker.py: generate_professional_question_paper            *)
(***************************************************************************)
\* A dict keeps its keys in the order of their first insertion: it is the
\* sequence of its items.  d[k] = v replaces the value of a key in place.
DictPut(d, k, v) ==
    IF \E i \in 1..Len(d) : d[i].key = k
    THEN [i \in 1..Len(d) |-> IF d[i].key = k THEN [key |-> k, val |-> v]
                              ELSE d[i]]
    ELSE Append(d, [key |-> k, val |-> v])

\* The percentages after if total_weightage != 100: ... (lines 58-62)
Weightages(chs) ==
    [i \in 1..Len(chs) |->
        IF SumPct(chs) # 100
        THEN NormalizedPct(chs[i].weightage_percentage, SumPct(chs))
        ELSE chs[i].weightage_percentage]

\* calculate_question_distribution: the dict after the chapters from the
\* i-th on, with `remaining` questions left and the entries of dist set
RECURSIVE DistributionFrom(_, _, _, _, _)
DistributionFrom(chs, total, i, remaining, dist) ==
    IF i > Len(chs) THEN dist
    ELSE LET last == i = Len(chs)
             questions_count == IF last THEN remaining
                                ELSE Share(Weightages(chs)[i], total)
         IN DistributionFrom(chs, total, i + 1,
                IF last THEN remaining ELSE remaining - questions_count,
                DictPut(dist, chs[i].document_id,
                        [questions |-> AtLeastOne(questions_count),
                         chapter_name |-> chs[i].chapter_name]))
QuestionDistribution(chs, total) == DistributionFrom(chs, total, 1, total, <<>>)

\* What handling one entry of the plan comes to: the search finds no content;
\* chat_async raises (time-out, HTTP error, no choices); or the response is
\* parsed
Outcomes == {"no_content", "provider", "parsed"}

\* parse_llm_response_to_questions(raw_response)[:questions_needed]: the
\* parser returns 20 items
ChapterQuestions(name, needed) ==
    [j \in 1..(IF needed < PaperQuestions THEN needed ELSE PaperQuestions) |->
        [chapter |-> name, n |-> j]]

InitGenIdle ==
    /\ gnChapters = <<>>
    /\ gnTotal = 0
    /\ gnPlan = <<>>
    /\ gnI = 0
    /\ gnAll = <<>>
    /\ gnProcessed = <<>>
    /\ gnFailed = {}
    /\ gnStatus = "none"
    /\ gnPc = "idle"

\* The job is called with a list of chapters whose percentages have a
\* positive sum, and a number of questions: update_enhanced_job_progress(5)
InitGen ==
    \E n \in 1..MaxChapters, total \in GenTotals : \E chs \in ChapterLists(n) :
        /\ SumPct(chs) > 0
        /\ gnChapters = chs
        /\ gnTotal = total
        /\ gnPlan = <<>>
        /\ gnI = 0
        /\ gnAll = <<>>
        /\ gnProcessed = <<>>
        /\ gnFailed = {}
        /\ gnStatus = "processing"
        /\ gnPc = "plan"

\* question_distribution = generator.calculate_question_distribution(...)
GenPlan ==
    /\ gnPc = "plan"
    /\ gnPlan' = QuestionDistribution(gnChapters, gnTotal)
    /\ gnPc' = "sample"
    /\ UNCHANGED <<gnChapters, gnTotal, gnI, gnAll, gnProcessed, gnFailed,
                   gnStatus>>
    /\ UNCHANGED notGen

\* sample_chunks = search_by_doc_id(...): the format of the sample is found
GenSample ==
    /\ gnPc = "sample"
    /\ gnPc' = "loop"
    /\ UNCHANGED <<gnChapters, gnTotal, gnPlan, gnI, gnAll, gnProcessed,
                   gnFailed, gnStatus>>
    /\ UNCHANGED notGen

\* if not sample_chunks: raise Exception(...): the job's except clause
GenNoSample ==
    /\ gnPc = "sample"
    /\ gnStatus' = "failed"
    /\ gnPc' = "ended"
    /\ UNCHANGED <<gnChapters, gnTotal, gnPlan, gnI, gnAll, gnProcessed,
                   gnFailed>>
    /\ UNCHANGED notGen

\* One iteration of for doc_id, chapter_info in question_distribution.items()
GenSource(outcome) ==
    /\ gnPc = "loop"
    /\ gnI < Len(gnPlan)
    /\ LET chapter_info == gnPlan[gnI + 1].val
           name == chapter_info.chapter_name
       IN /\ gnProcessed' = Append(gnProcessed, name)
          /\ IF outcome = "parsed"
             THEN /\ gnAll' = gnAll \o
                              ChapterQuestions(name, chapter_info.questions)
                  /\ gnFailed' = gnFailed
             ELSE /\ gnAll' = gnAll
                  /\ gnFailed' = gnFailed \cup
                                 {[chapter |-> name, cause |-> outcome]}
    /\ gnI' = gnI + 1
    /\ UNCHANGED <<gnChapters, gnTotal, gnPlan, gnStatus, gnPc>>
    /\ UNCHANGED notGen

\* if len(all_questions) < config.total_questions * 0.8: raise Exception(...)
\* all_questions = all_questions[:config.total_questions]
GenCheckCount ==
    /\ gnPc = "loop"
    /\ gnI = Len(gnPlan)
    /\ IF 10 * Len(gnAll) < 8 * gnTotal
       THEN /\ gnStatus' = "failed"
            /\ gnPc' = "ended"
            /\ gnAll' = gnAll
       ELSE /\ gnStatus' = gnStatus
            /\ gnPc' = "template"
            /\ gnAll' = Take(gnAll, gnTotal)
    /\ UNCHANGED <<gnChapters, gnTotal, gnPlan, gnI, gnProcessed, gnFailed>>
    /\ UNCHANGED notGen

\* formatted_paper = template.create_question_paper(all_questions): a list of
\* fewer than 20 items raises in the padding statement
GenTemplate ==
    /\ gnPc = "template"
    /\ IF Len(gnAll) < PaperQuestions
       THEN gnStatus' = "failed" /\ gnPc' = "ended"
       ELSE gnStatus' = gnStatus /\ gnPc' = "pdf"
    /\ UNCHANGED <<gnChapters, gnTotal, gnPlan, gnI, gnAll, gnProcessed,
                   gnFailed>>
    /\ UNCHANGED notGen

\* The PDF is written: update_enhanced_job_progress(job_id, 100, "completed")
GenComplete ==
    /\ gnPc = "pdf"
    /\ gnStatus' = "completed"
    /\ gnPc' = "ended"
    /\ UNCHANGED <<gnChapters, gnTotal, gnPlan, gnI, gnAll, gnProcessed,
                   gnFailed>>
    /\ UNCHANGED notGen

\* The PDF cannot be written: the job's except clause
GenPdfRaises ==
    /\ gnPc = "pdf"
    /\ gnStatus' = "failed"
    /\ gnPc' = "ended"
    /\ UNCHANGED <<gnChapters, gnTotal, gnPlan, gnI, gnAll, gnProcessed,
                   gnFailed>>
    /\ UNCHANGED notGen

NextGen ==
    \/ GenPlan
    \/ GenSample
    \/ GenNoSample
    \/ \E outcome \in Outcomes : GenSource(outcome)
    \/ GenCheckCount
    \/ GenTemplate
    \/ GenComplete
    \/ GenPdfRaises

(***************************************************************************)
(* app/worker.py, app/worker_dev.py: ingest_pdf                            *)
(***************************************************************************)
\* batch_size = 32 in worker.py; worker_dev.py calls add_to_index, which
\* hands one vector to add_embeddings, for every chunk
WkBatchSize == 32
BatchSize(kind) == IF kind = "wk" THEN WkBatchSize ELSE 1

IngKinds == {"wk", "dev"}

\* The documents ingested: doc_id, and len(chunks), which is a full batch
\* and MaxOver chunks more
IngDocs == {1, 2}
DocSizes(kind) == {BatchSize(kind) + MaxOver}

\* range(0, len(chunks), batch_size): the number of batches
Batches(kind, n) == (n + BatchSize(kind) - 1) \div BatchSize(kind)

\* chunks[i:i + batch_size] of batch j (from 0): the places of its chunks
BatchChunks(kind, n, j) ==
    LET first == j * BatchSize(kind) + 1
        last == IF (j + 1) * BatchSize(kind) < n
                THEN (j + 1) * BatchSize(kind) ELSE n
    IN [k \in 1..(last - first + 1) |-> first + k - 1]

InitIngIdle ==
    /\ igKind = "none"
    /\ igDoc = 0
    /\ igChunks = 0
    /\ igBatch = 0
    /\ igBase = 0
    /\ igJob = "none"
    /\ igDocStatus = [d \in IngDocs |-> "none"]
    /\ igFailedAt = -1
    /\ igRuns = 0
    /\ igPc = "idle"

\* The upload stores the document with status "processing" and calls
\* ingest_pdf(file_path, doc_id, doc_type); the text is read and chunked.
IngestStart(kind, doc, n) ==
    /\ igPc \in {"idle", "ended"}
    /\ Quiescent
    /\ igRuns < NIngests
    /\ igRuns' = igRuns + 1
    /\ igKind' = kind
    /\ igDoc' = doc
    /\ igChunks' = n
    /\ igBatch' = 0
    /\ igBase' = NTotal(indexFile)
    /\ igJob' = "processing"
    /\ igDocStatus' = [igDocStatus EXCEPT ![doc] = "processing"]
    /\ igFailedAt' = -1
    /\ igPc' = "embed"
    /\ UNCHANGED <<storeVars, jobVars, chunkVars, planVars, parseVars,
                   tplVars, searchVars>>
    /\ UNCHANGED ingOthers

\* embeddings = embed_batch(texts); metadata = [...]; add_embeddings is
\* entered with the vectors and the records of the chunks of the batch
IngestAdd ==
    /\ igPc = "embed"
    /\ igBatch < Batches(igKind, igChunks)
    /\ LET at == BatchChunks(igKind, igChunks, igBatch)
       IN /\ callVecs' = [callVecs EXCEPT ![1] =
                             [k \in 1..Len(at) |-> Vec(igDoc, at[k])]]
          /\ callMetas' = [callMetas EXCEPT ![1] =
                              [k \in 1..Len(at) |-> Meta(igDoc, at[k])]]
    /\ nCalls' = nCalls + 1
    /\ callPc' = [callPc EXCEPT ![1] = "exists"]
    /\ callErr' = [callErr EXCEPT ![1] = "none"]
    /\ callAt' = [callAt EXCEPT ![1] = "none"]
    /\ callIx' = [callIx EXCEPT ![1] = <<>>]
    /\ callStart' = [callStart EXCEPT ![1] = 0]
    /\ igPc' = "adding"
    /\ UNCHANGED <<indexExists, indexFile, meta>>
    /\ UNCHANGED <<igKind, igDoc, igChunks, igBatch, igBase, igJob,
                   igDocStatus, igFailedAt, igRuns>>
    /\ UNCHANGED <<jobVars, chunkVars, planVars, parseVars, tplVars,
                   searchVars>>
    /\ UNCHANGED ingOthers

\* A statement of add_embeddings
IngestStoreStep ==
    /\ igPc = "adding"
    /\ \/ CheckExists(1)
       \/ CreateIndex(1)
       \/ LoadIndex(1)
       \/ WriteIndex(1)
       \/ MetaCommit(1)
       \/ CallRaises(1)

\* add_embeddings has returned: the next batch, or the end of the loop
IngestBatchDone ==
    /\ igPc = "adding"
    /\ callPc[1] = "done"
    /\ igBatch' = igBatch + 1
    /\ igPc' = IF igBatch + 1 < Batches(igKind, igChunks) THEN "embed"
               ELSE "finish"
    /\ UNCHANGED <<igKind, igDoc, igChunks, igBase, igJob, igDocStatus,
                   igFailedAt, igRuns>>
    /\ UNCHANGED notIng

\* except Exception as e, entered from the batch that raised: in
\* embed_batch, or in add_embeddings.  The job is given its failed status
\* (worker.py: f"failed: {str(e)}").  A handler that took the writes of the
\* run back would leave the store as it was when the run began.
IngestFailsRollingBack ==
    /\ \/ igPc = "embed"
       \/ igPc = "adding" /\ callPc[1] = "raised"
    /\ igJob' = "failed"
    /\ igFailedAt' = igBatch
    /\ igPc' = "handler"
    /\ indexFile' = SubSeq(indexFile, 1, igBase)
    /\ meta' = [id \in {i \in DOMAIN meta : i < igBase} |-> meta[id]]
    /\ UNCHANGED <<indexExists, callPc, callIx, callStart, callVecs,
                   callMetas, callErr, callAt, nCalls>>
    /\ UNCHANGED <<igKind, igDoc, igChunks, igBatch, igBase, igDocStatus,
                   igRuns>>
    /\ UNCHANGED <<jobVars, chunkVars, planVars, parseVars, tplVars,
                   searchVars>>
    /\ UNCHANGED ingOthers
IngestFails ==
    /\ \/ igPc = "embed"
       \/ igPc = "adding" /\ callPc[1] = "raised"
    /\ igJob' = "failed"
    /\ igFailedAt' = igBatch
    /\ igPc' = "handler"
    /\ UNCHANGED <<igKind, igDoc, igChunks, igBatch, igBase, igDocStatus,
                   igRuns>>
    /\ UNCHANGED notIng

\* In the handler: update_document_status(doc_id, "failed")
IngestDocFailed ==
    /\ igPc = "handler"
    /\ igDocStatus' = [igDocStatus EXCEPT ![igDoc] = "failed"]
    /\ igPc' = "ended"
    /\ UNCHANGED <<igKind, igDoc, igChunks, igBatch, igBase, igJob,
                   igFailedAt, igRuns>>
    /\ UNCHANGED notIng

\* update_document_status raises in the handler (the database that the
\* batch could not be written to): worker_dev.py passes over it (except:
\* pass), worker.py lets it leave ingest_pdf.  The status is not written.
IngestDocFailedRaises ==
    /\ igPc = "handler"
    /\ igPc' = "ended"
    /\ UNCHANGED <<igKind, igDoc, igChunks, igBatch, igBase, igJob,
                   igDocStatus, igFailedAt, igRuns>>
    /\ UNCHANGED notIng

\* update_document_status(doc_id, "completed"); the job is completed
IngestFinish ==
    /\ igPc = "finish"
    /\ igDocStatus' = [igDocStatus EXCEPT ![igDoc] = "completed"]
    /\ igJob' = "completed"
    /\ igPc' = "ended"
    /\ UNCHANGED <<igKind, igDoc, igChunks, igBatch, igBase, igFailedAt,
                   igRuns>>
    /\ UNCHANGED notIng

NextIngest ==
    \/ \E kind \in IngKinds, doc \in IngDocs :
           \E n \in DocSizes(kind) : IngestStart(kind, doc, n)
    \/ IngestAdd
    \/ IngestStoreStep
    \/ IngestBatchDone
    \/ IngestFails
    \/ IngestDocFailed
    \/ IngestDocFailedRaises
    \/ IngestFinish

(***************************************************************************)
(* app/rag/deepseek_client.py: chat_sync                                   *)
(***************************************************************************)
\* thread.join(timeout=timeout + 10)
JoinSlack == 10
Deadline(timeout) == timeout + JoinSlack

\* What the inner call chat_async comes to in the thread: it returns its
\* text, it raises an Exception, or it raises a BaseException that is no
\* Exception (asyncio.CancelledError, SystemExit).  It may also never end.
InnerEnds == {"text", "Exception", "BaseException"}

\* The items put on result_queue
Success == <<"success", "text">>
Error(e) == <<"error", e>>

\* What a call comes to for its caller
Returned(text) == [kind |-> "return", value |-> text]
Raised(e) == [kind |-> "raise", value |-> e]

InitChatIdle ==
    /\ csPc = "idle"
    /\ csTimeout = 0
    /\ csClock = 0
    /\ csQueue = <<>>
    /\ csAlive = FALSE
    /\ csOutcomes = <<>>
    /\ thPc = "none"
    /\ nChats = 0

\* chat_sync(prompt, timeout=...): result_queue = queue.Queue();
\* thread = threading.Thread(target=run_async); thread.start().  The queue
\* and the thread are the call's own: a thread that an earlier call left
\* running has no part in this one.
ChatSync(timeout) ==
    /\ csPc \in {"idle", "ended"}
    /\ nChats < NChats
    /\ nChats' = nChats + 1
    /\ csTimeout' = timeout
    /\ csClock' = 0
    /\ csQueue' = <<>>
    /\ csAlive' = FALSE
    /\ thPc' = "start"
    /\ csPc' = "joining"
    /\ UNCHANGED csOutcomes
    /\ UNCHANGED notChat

\* run_async: loop = asyncio.new_event_loop(); asyncio.set_event_loop(loop).
\* When one of them raises, the outer except puts the error.
ThreadStart(ok) ==
    /\ thPc = "start"
    /\ IF ok THEN thPc' = "run" /\ csQueue' = csQueue
       ELSE thPc' = "dead" /\ csQueue' = Append(csQueue, Error("loop"))
    /\ UNCHANGED <<csPc, csTimeout, csClock, csAlive, csOutcomes, nChats>>
    /\ UNCHANGED notChat

\* result = loop.run_until_complete(chat_async(...)) ends:
\*   result_queue.put(('success', result))
\*   except Exception as e: result_queue.put(('error', e))
\* and a BaseException that is no Exception passes both except clauses.
ThreadRun(ends) ==
    /\ thPc = "run"
    /\ csQueue' = CASE ends = "text" -> Append(csQueue, Success)
                    [] ends = "Exception" -> Append(csQueue, Error("inner"))
                    [] OTHER -> csQueue
    /\ thPc' = "close"
    /\ UNCHANGED <<csPc, csTimeout, csClock, csAlive, csOutcomes, nChats>>
    /\ UNCHANGED notChat

\* finally: loop.close(); the thread ends
ThreadClose ==
    /\ thPc = "close"
    /\ thPc' = "dead"
    /\ UNCHANGED <<csPc, csTimeout, csClock, csQueue, csAlive, csOutcomes,
                   nChats>>
    /\ UNCHANGED notChat

\* A second passes while the caller is in thread.join(timeout=timeout + 10)
Tick ==
    /\ csPc = "joining"
    /\ csClock < Deadline(csTimeout)
    /\ csClock' = csClock + 1
    /\ UNCHANGED <<csPc, csTimeout, csQueue, csAlive, csOutcomes, thPc, nChats>>
    /\ UNCHANGED notChat

\* thread.join returns because the thread has ended
JoinThreadEnded ==
    /\ csPc = "joining"
    /\ thPc = "dead"
    /\ csPc' = "alive"
    /\ UNCHANGED <<csTimeout, csClock, csQueue, csAlive, csOutcomes, thPc,
                   nChats>>
    /\ UNCHANGED notChat

\* thread.join returns because timeout + 10 seconds have passed.  A join
\* without a timeout would return only when the thread has ended.
JoinWithoutTimeout ==
    /\ csPc = "joining"
    /\ thPc = "dead"
    /\ csClock = Deadline(csTimeout)
    /\ csPc' = "alive"
    /\ UNCHANGED <<csTimeout, csClock, csQueue, csAlive, csOutcomes, thPc,
                   nChats>>
    /\ UNCHANGED notChat
JoinElapsed ==
    /\ csPc = "joining"
    /\ csClock = Deadline(csTimeout)
    /\ csPc' = "alive"
    /\ UNCHANGED <<csTimeout, csClock, csQueue, csAlive, csOutcomes, thPc,
                   nChats>>
    /\ UNCHANGED notChat

\* if thread.is_alive(): raise TimeoutError(...)
CheckAlive ==
    /\ csPc = "alive"
    /\ csAlive' = (thPc # "dead")
    /\ IF thPc # "dead"
       THEN /\ csOutcomes' = Append(csOutcomes, Raised("TimeoutError"))
            /\ csPc' = "ended"
       ELSE /\ csOutcomes' = csOutcomes
            /\ csPc' = "get"
    /\ UNCHANGED <<csTimeout, csClock, csQueue, thPc, nChats>>
    /\ UNCHANGED notChat

\* result_type, result_value = result_queue.get_nowait()
\* if result_type == 'error': raise result_value
\* return result_value
\* except queue.Empty: raise RuntimeError("No result received ...")
GetResult ==
    /\ csPc = "get"
    /\ csOutcomes' = Append(csOutcomes,
           IF csQueue = <<>> THEN Raised("RuntimeError")
           ELSE IF Head(csQueue)[1] = "error" THEN Raised(Head(csQueue)[2])
           ELSE Returned(Head(csQueue)[2]))
    /\ csQueue' = IF csQueue = <<>> THEN csQueue ELSE Tail(csQueue)
    /\ csPc' = "ended"
    /\ UNCHANGED <<csTimeout, csClock, csAlive, thPc, nChats>>
    /\ UNCHANGED notChat

\* The steps of the thread, and those of the caller.
ThreadStep ==
    \/ \E ok \in BOOLEAN : ThreadStart(ok)
    \/ \E ends \in InnerEnds : ThreadRun(ends)
    \/ ThreadClose
CallerStep == JoinThreadEnded \/ JoinElapsed \/ CheckAlive \/ GetResult

NextChat ==
    \/ \E timeout \in 1..MaxTimeout : ChatSync(timeout)
    \/ ThreadStep
    \/ Tick
    \/ CallerStep

(***************************************************************************)
(* Properties of the vector store.                                         *)
(***************************************************************************)

\* Row i of table meta is the record supplied with the vector at position i,
\* and there is a row for every position and for no other id.
Aligned ==
    /\ DOMAIN meta = 0..(NTotal(indexFile) - 1)
    /\ \A i \in DOMAIN meta : meta[i].data = indexFile[i + 1].vec

\* The persisted index holds every vector of caller c's batch.
HoldsBatch(c) ==
    \A k \in 1..Len(callVecs[c]) :
        \E p \in 1..Len(indexFile) : indexFile[p] = callVecs[c][k]

\* C1: when two add_embeddings calls from independent jobs have both ended
\* (returned, or raised out of the metadata insert) without any file or
\* database fault, the persisted index holds the vectors of both batches and
\* metadata row i is the record supplied with the vector at position i.
C1_ConcurrentInsertsStayAligned ==
    ( /\ nCalls = 2
      /\ Cardinality({c \in Callers : callPc[c] # "idle"}) = 2
      /\ Quiescent
      /\ \A c \in Callers : callErr[c] \in {"none", "IntegrityError"} )
    => /\ Aligned
       /\ \A c \in Callers : callPc[c] # "idle" => HoldsBatch(c)

C3_NoPartialCommitExposed ==
    \A c \in Callers :
        ( /\ callPc[c] = "raised"
          /\ callAt[c] = "meta"
          /\ \A d \in Callers \ {c} : callPc[d] = "idle" )
        => /\ NTotal(indexFile) = Cardinality(DOMAIN meta)
           /\ \A k \in 1..Len(callVecs[c]) :
                  \A p \in 1..Len(indexFile) : indexFile[p] # callVecs[c][k]

(***************************************************************************)
(* Properties of the job records.                                          *)
(***************************************************************************)

\* A record of worker_dev or enhanced_worker is in a terminal state.
RecTerminal(rec) == rec.status \in {"completed", "failed"}
\* A status string of worker.py is terminal: "completed" or "failed: ...".
WkTerminal(st) == st = <<"completed">> \/ Head(st) = "failed: "

\* C4: once the record of a job id is completed or failed, no later update
\* changes it, in any of the job stores.
C4_TerminalIsFinal ==
    [][ /\ \A id \in DOMAIN devJobs :
               RecTerminal(devJobs[id]) => devJobs'[id] = devJobs[id]
        /\ \A id \in DOMAIN enhJobs :
               RecTerminal(enhJobs[id]) => enhJobs'[id] = enhJobs[id]
        /\ \A id \in DOMAIN wkStatus :
               WkTerminal(wkStatus[id]) => wkStatus'[id] = wkStatus[id] ]_vars

\* The status job r's record shows, as text pieces, in the store it writes to.
StatusAt(r) ==
    CASE IsDev(runKind[r]) ->
             IF runId[r] \in DOMAIN devJobs THEN <<devJobs[runId[r]].status>>
             ELSE <<"no record">>
      [] IsEnh(runKind[r]) ->
             IF runId[r] \in DOMAIN enhJobs THEN <<enhJobs[runId[r]].status>>
             ELSE <<"no record">>
      [] IsWk(runKind[r]) ->
             IF runId[r] \in DOMAIN wkStatus THEN wkStatus[runId[r]]
             ELSE <<"no record">>
      [] OTHER -> <<"no record">>

\* The error string job r's record exposes, as text pieces: the error field
\* in worker_dev and enhanced_worker, the status text itself in worker.py.
ErrorAt(r) ==
    CASE IsDev(runKind[r]) /\ runId[r] \in DOMAIN devJobs ->
             IF devJobs[runId[r]].error = None THEN <<>>
             ELSE devJobs[runId[r]].error.str
      [] IsEnh(runKind[r]) /\ runId[r] \in DOMAIN enhJobs ->
             IF enhJobs[runId[r]].error = None THEN <<>>
             ELSE enhJobs[runId[r]].error.str
      [] IsWk(runKind[r]) /\ runId[r] \in DOMAIN wkStatus -> wkStatus[runId[r]]
      [] OTHER -> <<>>

Failed(st) == Head(st) \in {"failed", "failed: "}
Ended(st) == st = <<"completed">> \/ Failed(st)

\* Job r has returned and its record shows a terminal status.
Finished(r) == runState[r] = "returned" /\ Ended(StatusAt(r))

Stepped(r) == runState'[r] # runState[r] \/ runPc'[r] # runPc[r]

\* The store job r writes to is as it was.
SameStores == devJobs' = devJobs /\ enhJobs' = enhJobs /\ wkStatus' = wkStatus

\* C6 as claimed: the status history of every job id is pending ->
\* processing -> completed or failed: a record is pending when it is
\* created, only a processing record becomes completed or failed, and no
\* other status or transition occurs.
StatusOrder(old, new) ==
    \/ old = new
    \/ old = <<"pending">> /\ new = <<"processing">>
    \/ old = <<"processing">> /\ new \in {<<"completed">>, <<"failed">>}
LastProgress(r) ==
    IF runPc[r] = 0 THEN 0 ELSE Checkpoints(runKind[r])[runPc[r]]

\* The progress job r's record shows.
ProgressAt(r) ==
    IF IsDev(runKind[r]) THEN devJobs[runId[r]].progress
    ELSE enhJobs[runId[r]].progress

\* C7: every progress value stored is an integer in 0..100, and the values
\* a job writes while its status is processing never decrease.
C7_ProgressMonotone ==
    [][ /\ \A id \in DOMAIN devJobs' : devJobs'[id].progress \in 0..100
        /\ \A id \in DOMAIN enhJobs' : enhJobs'[id].progress \in 0..100
        /\ \A r \in Runs :
               ( /\ Stepped(r)
                 /\ ~IsWk(runKind'[r])
                 /\ StatusAt(r)' = <<"processing">>
                 /\ runState[r] = "running" )
               => ProgressAt(r)' >= LastProgress(r) ]_vars

\* A professional generation job has written its update after the chapter
\* loop (70) and the one that follows it.
C7_Witness ==
    \E r \in Runs :
        /\ runKind[r] = "enh_generate" /\ runState[r] = "running"
        /\ runPc[r] = 5 /\ ProgressAt(r) = 80
        /\ StatusAt(r) = <<"processing">>

\* C8: a status query for an id that has no record returns the sentinel
\* status not_found, and no query creates or changes a job record.
C8_UnknownIdNotFound ==
    [][ qry' # qry =>
          /\ devJobs' = devJobs /\ enhJobs' = enhJobs
          /\ wkStatus' = wkStatus /\ wkResults' = wkResults
          /\ ~qry'.known =>
                 /\ qry'.store = "wk" =>
                        qry'.wkResult = [status |-> <<"not_found">>, result |-> None]
                 /\ qry'.store # "wk" => qry'.result.status = "not_found"
                 /\ qry'.store = "dev" => qry'.id \notin DOMAIN devJobs'
                 /\ qry'.store = "enh" => qry'.id \notin DOMAIN enhJobs'
                 /\ qry'.store = "wk" => qry'.id \notin DOMAIN wkStatus' ]_vars

\* An id without a record was queried in worker_dev while another job had one.
C8_Witness ==
    /\ qry.store = "dev" /\ ~qry.known
    /\ qry.result = NotFound
    /\ qry.id \notin DOMAIN devJobs
    /\ devJobs # <<>>

(***************************************************************************)
(* Properties of the chunker.                                              *)
(***************************************************************************)
\* C9: chunks() terminates for every text and every size >= 1 and overlap
\* >= 0: every iteration of the loop moves start strictly forward, so the
\* loop makes at most as many iterations as the text has characters.
C9_StartStrictlyAdvances ==
    [][ (chPc = "loop" /\ chIter' = chIter + 1 /\ chSize >= 1 /\ chOlap >= 0)
        => (chStart' > chStart /\ chIter' <= Len(chText)) ]_vars

\* C10: a cleaned text of 2,500 characters, cut with size 1000 and overlap
\* 200, yields exactly 3 chunks, numbered 0, 1, 2, at strictly increasing
\* start offsets.
C10_ScenarioYieldsThree ==
    ( /\ chPc = "done" /\ Len(chText) = ScenarioLen
      /\ chSize = DefaultSize /\ chOlap = DefaultOverlap )
    => /\ Len(chOut) = 3
       /\ \A i \in 1..Len(chOut) : chOut[i].idx = i - 1
       /\ \A i \in 1..(Len(chOut) - 1) : chOut[i].start < chOut[i + 1].start

\* C11: a text whose cleaned length is at least 1 and less than size yields
\* exactly one chunk, whatever the overlap.
C11_ShortTextOneChunk ==
    (chPc = "done" /\ Len(chText) >= 1 /\ Len(chText) < chSize)
    => Len(chOut) = 1

\* C12: the chunks yielded so far have strictly increasing start offsets,
\* none is empty or whitespace-only, their ordinals are 0, 1, ... in yield
\* order, and a text that is empty after cleaning yields nothing.
C12_ChunksOrderedNonEmpty ==
    /\ \A i \in 1..Len(chOut) :
           /\ chOut[i].idx = i - 1
           /\ \E k \in 1..Len(chOut[i].text) : ~IsSpace(chOut[i].text[k])
    /\ \A i \in 1..(Len(chOut) - 1) : chOut[i].start < chOut[i + 1].start
    /\ chText = <<>> => chOut = <<>>

(***************************************************************************)
(* Properties of the planner.                                              *)
(***************************************************************************)
\* The quotas of the returned plan, added up.
RECURSIVE SumQuotas(_, _)
SumQuotas(dist, keys) ==
    IF keys = {} THEN 0
    ELSE LET k == CHOOSE x \in keys : TRUE
         IN dist[k].questions + SumQuotas(dist, keys \ {k})
PlanTotal == SumQuotas(plDist, DOMAIN plDist)

\* C13: the quotas of the returned plan sum to exactly total_questions when
\* every chapter's computed share is at least 1 and to at least
\* total_questions otherwise, also when chapters name the same document; for
\* 40, 35, 25 and 20 questions they sum to 20 and the last entry gets 5.
C13_QuotasSumToTotal ==
    plPc = "done" =>
        /\ IF \A i \in 1..Len(plCounts) : plCounts[i] >= 1
           THEN PlanTotal = plTotal
           ELSE PlanTotal >= plTotal
        /\ (plDeclared = <<40, 35, 25>> /\ plTotal = DefaultTotal) =>
               /\ PlanTotal = DefaultTotal
               /\ plCounts = <<8, 7, 5>>

\* C14: when the declared percentages do not sum to 100, the percentages the
\* quotas are computed from sum to exactly 100.
C14_NormalizedSumIs100 ==
    (plPc \in {"loop", "done"} /\ SumPct([i \in 1..Len(plDeclared) |->
         [weightage_percentage |-> plDeclared[i]]]) # 100)
    => SumPct(plChapters) = 100

\* C15: the returned plan has one quota per declared chapter, and every
\* quota is at least 1.
C15_NoSourceDropped ==
    plPc = "done" =>
        /\ \A i \in 1..Len(plChapters) :
               \E d \in DOMAIN plDist : plDist[d].chapter_name = i
        /\ \A d \in DOMAIN plDist : plDist[d].questions >= 1

(***************************************************************************)
(* Properties of the response parser.                                      *)
(***************************************************************************)
\* The items of the returned list that come from the response.
Recovered == SelectSeq(psResult, LAMBDA q : q.kind = "line")

\* C16: the parser returns exactly 20 items: the items recovered from the
\* response, in the order of the response, then placeholders "Generated
\* question n" numbered by position; a response of 15 numbered lines gives
\* 15 recovered items and 5 placeholders.
C16_TwentyItemsPadded ==
    psPc = "done" =>
        /\ Len(psResult) = PaperQuestions
        /\ \E k \in 0..PaperQuestions :
               /\ \A i \in 1..k : psResult[i].kind = "line"
               /\ \A i \in 1..(k - 1) : psResult[i].n < psResult[i + 1].n
               /\ \A i \in (k + 1)..PaperQuestions : psResult[i] = Generated(i)
        /\ (Len(psLines) = 15 /\ \A i \in 1..15 : psLines[i] \in {"N", "ND"})
           => Recovered = [i \in 1..15 |-> LineItem(i)]

\* C20: a generation job in which the items recovered from the response,
\* the placeholders not counted, are under 80% of the 20 requested has ended
\* with status "failed", never "completed".
C20_FewRecoveredJobFails ==
    (psPc = "ended" /\ 10 * Len(Recovered) < 8 * PaperQuestions)
        => psJob = "failed"

\* C25: the strategies are tried in order and the first that finds at
\* least 15 items wins: whenever the numbered pattern finds at least 15
\* items, the items recovered are the numbered matches (the first 20),
\* whatever the sub-question pattern finds in the same response.
C25_NumberedWins ==
    (psPc = "done" /\ Len(NumberedMatches(psLines)) >= MinMatches)
        => Recovered = Take(NumberedMatches(psLines), PaperQuestions)

\* C26: when neither pattern reaches its threshold, the fallback recovers
\* the sentences that hold a question mark and are longer than 20
\* characters: a response with such a sentence gives at least one recovered
\* item.
C26_FallbackRecoversQuestions ==
    (/\ psPc = "done"
     /\ Len(NumberedMatches(psLines)) < MinMatches
     /\ Len(SubMatches(psLines)) < MinMatches
     /\ \E i \in 1..Len(psLines) : psLines[i] = "Q")
        => Recovered # <<>>

(***************************************************************************)
(* Properties of the paper template.                                       *)
(***************************************************************************)
\* The template with every marker replaced by the value of its slot.
Populated(items) ==
    LET Piece(i) ==
            CASE Template[i] = Marker("paper_code", 0) -> <<Text("paper_code", 0)>>
              [] Template[i].t = "marker" /\ Template[i].key = "Q" ->
                     SlotValue(items, Template[i].n)
              [] OTHER -> <<Template[i]>>
        Join[i \in 0..Len(Template)] ==
            IF i = 0 THEN <<>> ELSE Join[i - 1] \o Piece(i)
    IN Join[Len(Template)]

\* C17: create_question_paper called with fewer than 20 items does not
\* raise; the paper it returns holds the given items in the first slots and
\* a placeholder in every other slot, and no marker in braces is left.
C17_ShortListPadded ==
    Len(tpItems) < PaperQuestions =>
        /\ tpPc # "raised"
        /\ tpPc \in {"returned", "validated"} =>
               /\ tpPaper = Populated(tpItems)
               /\ Count(tpPaper, "marker") = 0

\* C18: for a list of exactly 20 items, create_question_paper and then
\* validate_question_paper_format give overall validity with every check
\* true and no marker left, and the slot of block b, sub-slot s holds item
\* (b-1)*5+s.
C18_PopulateThenValidate ==
    (Len(tpItems) = PaperQuestions /\ tpPc = "validated") =>
        /\ AllChecks(tpChecks)
        /\ \A c \in DOMAIN tpChecks : tpChecks[c]
        /\ Count(tpPaper, "marker") = 0
        /\ tpPaper = Populated(tpItems)

(***************************************************************************)
(* Properties of the search.                                               *)
(***************************************************************************)
\* The step that ends a search.
SearchEnds == srPc # "done" /\ srPc' = "done"

\* C19: search never raises to its caller: a search on an empty store, and
\* one in which the embedding, the index or the metadata lookup fails,
\* returns the empty list; and no step of a search changes the index (the
\* file and the vectors in it) or the metadata records.
C19_SearchReturnsEmptyStoreUnchanged ==
    [][/\ SearchEnds =>
            /\ srOutcome' = "returned"
            /\ (NTotal(srIx') = 0 \/ srErr' # "none") => srResult' = <<>>
       /\ srPc # srPc' =>
            /\ indexExists' = indexExists
            /\ indexFile' = indexFile
            /\ meta' = meta]_vars

\* The places in the ranking of the candidates that have a metadata row
\* which passes the filter.
Qualified ==
    {i \in 1..Len(srIds') :
        srIds'[i] \in DOMAIN meta /\ Passes(meta[srIds'[i]], srFilter)}

Declared == [i \in 1..Len(gnChapters) |-> gnChapters[i].chapter_name]

\* The items of all_questions that come from the chapter `name`.
ItemsOf(name) == SelectSeq(gnAll, LAMBDA q : q.chapter = name)

\* C21: the sources are handled one at a time in the declared order of the
\* weightage list; a source that fails (no content, or the generation call
\* raising) does not end the job: when the loop is over every declared
\* source has been handled, the job is still processing, and the items of
\* the sources that did not fail are all kept.
C21_SourcesInOrderFailuresSkipped ==
    /\ gnPc = "loop" => gnStatus = "processing"
    /\ (gnPc = "loop" /\ gnI = Len(gnPlan)) =>
          /\ gnProcessed = Declared
          /\ \A i \in 1..Len(gnChapters) :
                 (\A f \in gnFailed : f.chapter # i) => ItemsOf(i) # <<>>

\* C24: when the provider fails for a source (time-out, error response, no
\* choices), the job goes on with a canned placeholder output in place of
\* the provider's text: the source has items in all_questions.
C24_ProviderFailureGivesCanned ==
    \A f \in gnFailed : f.cause = "provider" => ItemsOf(f.chapter) # <<>>

(***************************************************************************)
(* Properties of the ingestion.                                            *)
(***************************************************************************)
\* The vectors and the metadata rows of the batches before batch j of the
\* run are in the store, where the run put them.
BatchesKept(j) ==
    LET kept == IF j * BatchSize(igKind) < igChunks
                THEN j * BatchSize(igKind) ELSE igChunks
    IN \A k \in 1..kept :
           /\ igBase + k <= NTotal(indexFile)
           /\ indexFile[igBase + k] = Vec(igDoc, k)
           /\ igBase + k - 1 \in DOMAIN meta
           /\ meta[igBase + k - 1] = Meta(igDoc, k)

\* The store only grows: no vector and no metadata row is removed or changed.
StoreAppended ==
    /\ NTotal(indexFile') >= NTotal(indexFile)
    /\ SubSeq(indexFile', 1, NTotal(indexFile)) = indexFile
    /\ \A id \in DOMAIN meta : id \in DOMAIN meta' /\ meta'[id] = meta[id]

LastOutcome == csOutcomes[Len(csOutcomes)]

\* Every call that has ended has come to one outcome, and a call in
\* progress to none yet.
OneOutcomePerCall ==
    Len(csOutcomes) = IF csPc \in {"joining", "alive", "get"}
                      THEN nChats - 1 ELSE nChats

\* TimeoutError is raised when the bound has passed and the thread is still
\* running, and only then.
TimeoutWhenAlive ==
    csPc = "ended" =>
        (LastOutcome = Raised("TimeoutError")
            <=> csAlive /\ csClock = Deadline(csTimeout))

\* C23 as stated: a call of chat_sync returns the inner call's text,
\* re-raises the error raised in the thread, or raises TimeoutError.
C23_ThreeOutcomes ==
    csPc = "ended" =>
        LastOutcome \in {Returned("text"), Raised("inner"), Raised("loop"),
                         Raised("TimeoutError")}

\* C23: chat_sync never blocks for ever: a call in progress ends, whatever
\* the thread does.  It has exactly one outcome: it returns the inner call's
\* text; it raises the error that the thread put on the queue (the inner
\* call's, or that of setting up the event loop); it raises TimeoutError
\* when timeout + 10 seconds have passed and the thread is still running; or
\* it raises RuntimeError when the thread has ended without a result.
C23_EndsWithOneOutcome ==
    /\ [](/\ OneOutcomePerCall
          /\ TimeoutWhenAlive
          /\ csPc = "ended" =>
                LastOutcome \in {Returned("text"), Raised("inner"),
                                 Raised("loop"), Raised("TimeoutError"),
                                 Raised("RuntimeError")})
    /\ (csPc = "joining") ~> (csPc = "ended")
\* The bound has passed with the thread still in the inner call, and the
\* call has raised TimeoutError.
C23_Witness ==
    /\ csPc = "ended"
    /\ thPc = "run"
    /\ csClock = Deadline(csTimeout)
    /\ LastOutcome = Raised("TimeoutError")

\* ---- properties of the job records under interleaved updates

\* Job r makes an update call in this step: create_job as it starts, a
\* progress update, or its final update.
Creates(r) ==
    /\ runState[r] = "idle"
    /\ runState'[r] = "running"
    /\ runKind'[r] = "dev_ingest"
Progresses(r) == runPc'[r] = runPc[r] + 1
Ends(r) ==
    /\ runState[r] = "running"
    /\ runState'[r] = "returned"
    /\ ~IsWk(runKind[r])
Writes(r) == Creates(r) \/ Progresses(r) \/ Ends(r)

\* The records the call job r makes in this step can pass: result and
\* error are None unless the call passes them.
WrittenBy(r) ==
    IF Creates(r) THEN {CreatedRecord(runId'[r])}
    ELSE IF Progresses(r)
    THEN {UpdateRecord(Checkpoints(runKind[r])[runPc'[r]], "processing",
                       None, None)}
    ELSE {UpdateRecord(100, "completed", Str(<<"result">>), None)}
         \cup {UpdateRecord(0, "failed", None, ErrorMsg(runKind[r], e)) :
                 e \in ErrTexts}

\* The store of job records after a step, given the one before it, holds
\* under the id written the record of the call made, whole, and every
\* other record as it was.
Mine(store, kind) == IF store = "dev" THEN IsDev(kind) ELSE IsEnh(kind)
LastWriteWins(old, new, store) ==
    /\ DOMAIN old \subseteq DOMAIN new
    /\ \A r \in Runs :
          Writes(r) /\ Mine(store, runKind'[r]) =>
              /\ runId'[r] \in DOMAIN new
              /\ new[runId'[r]] \in WrittenBy(r)
    /\ \A id \in DOMAIN new :
          (\A r \in Runs : ~(Writes(r) /\ Mine(store, runKind'[r]) /\ runId'[r] = id))
              => id \in DOMAIN old /\ new[id] = old[id]

\* C29: a store of job records holds one record per id, and an update
\* replaces it whole: after every update call, however the calls of jobs
\* with the same id interleave, the record stored under the id is the one
\* that call wrote, result and error None unless the call passed them, no
\* field of the record before it or of another call's record kept; every
\* other step leaves the record as it is.
C29_LastWriteWins ==
    [][ /\ LastWriteWins(devJobs, devJobs', "dev")
        /\ LastWriteWins(enhJobs, enhJobs', "enh") ]_vars

\* Two jobs with the same id have both written to it, the one further
\* on in its work first: the record is that of the other.
C29_Witness ==
    \E r, q \in Runs :
        /\ r # q
        /\ runKind[r] = "dev_generate" /\ runKind[q] = "dev_generate"
        /\ runId[r] = runId[q]
        /\ runState[r] = "running" /\ runState[q] = "running"
        /\ runPc[r] >= 2 /\ runPc[q] >= 1 /\ runPc[q] < runPc[r]
        /\ devJobs[runId[r]] =
              UpdateRecord(Checkpoints("dev_generate")[runPc[q]],
                           "processing", None, None)

\* ---------------------------------------------------------------------
\* app/enhanced_worker.py: get_diverse_content_from_chapter
\* ---------------------------------------------------------------------

KeyLen == 100       \* chunk.get('text', '')[:100]
MinText == 50       \* len(chunk.get('text', '')) > 50
MinCap == 10        \* max(questions_needed * 2, 10)
DvK == 3            \* search_by_doc_id(query, document_id, k=3)

BaseQueries ==
    << "definition concept theory",
       "properties characteristics features",
       "applications uses examples",
       "process method procedure",
       "classification types categories" >>

TopicLists ==
    { SubSeq(<<"topic 1", "topic 2", "topic 3", "topic 4">>, 1, n) :
        n \in 0..MaxTopics }

\* A text is its length, its first KeyLen characters (head) and what
\* follows them (tail, 0 when there is nothing).  The i-th text of the
\* document: every sixth one is MinText characters long, every fifth and
\* sixth of six begin with the same KeyLen characters as the one before
\* and differ after them or not at all, the others are MinText + 1 long.
DocText(i) ==
    IF i % 6 = 0 THEN [len |-> MinText, head |-> i, tail |-> 0]
    ELSE IF i % 6 = 5 THEN [len |-> KeyLen + 1, head |-> i - 1, tail |-> 2]
    ELSE IF i % 6 = 4 THEN [len |-> KeyLen + 1, head |-> i, tail |-> 1]
    ELSE [len |-> MinText + 1, head |-> i, tail |-> 0]

\* chunk.get('text', '')[:100]
TextKey(chunk) == chunk.text.head

\* What search_by_doc_id can return for the q-th query: at most DvK chunks
\* of the document, each with the similarity score of that query; nothing
\* (no match, or an error it swallows), the next chunks of the document,
\* the chunks the first query returned, or chunks overlapping those of
\* the query before.
SearchResult(q, from) ==
    [ i \in 1..DvK |-> [text |-> DocText(from + i), score |-> q] ]

SearchResults(q) ==
    { <<>>, SearchResult(q, DvK * (q - 1)), SearchResult(q, 0),
      SearchResult(q, DvK * (q - 1) - (IF q > 1 THEN 1 ELSE 0)) }

RECURSIVE UniqueLast(_, _, _)
\* the loop with the occurrence seen last replacing the one kept
UniqueLast(chunks, seen, unique) ==
    IF chunks = <<>> THEN unique
    ELSE LET chunk == Head(chunks)
             text_key == TextKey(chunk)
         IN  IF chunk.text.len > MinText
             THEN UniqueLast(Tail(chunks), seen \cup {text_key},
                     SelectSeq(unique, LAMBDA u : TextKey(u) # text_key)
                         \o <<chunk>>)
             ELSE UniqueLast(Tail(chunks), seen, unique)

RECURSIVE UniqueChunks(_, _, _)
\* lines 106-112: the loop over all_chunks
UniqueChunks(chunks, seen, unique) ==
    IF chunks = <<>> THEN unique
    ELSE LET chunk == Head(chunks)
             text_key == TextKey(chunk)
         IN  IF text_key \notin seen /\ chunk.text.len > MinText
             THEN UniqueChunks(Tail(chunks), seen \cup {text_key},
                               Append(unique, chunk))
             ELSE UniqueChunks(Tail(chunks), seen, unique)

Max(a, b) == IF a >= b THEN a ELSE b

\* max(questions_needed * 2, 10)
Cap(needed) == Max(needed * 2, MinCap)

\* unique_chunks[:n]
Truncated(seq, n) == SubSeq(seq, 1, IF Len(seq) < n THEN Len(seq) ELSE n)

InitDivIdle ==
    /\ dvTopics = <<>>
    /\ dvNeeded = 0
    /\ dvQueries = <<>>
    /\ dvSearched = <<>>
    /\ dvAll = <<>>
    /\ dvResult = <<>>
    /\ dvPc = "idle"

\* lines 88-100: the call, up to the loop over the queries
DivCall(topics, needed) ==
    /\ dvPc = "idle"
    /\ dvTopics' = topics
    /\ dvNeeded' = needed
    /\ dvQueries' = (IF topics # <<>> THEN BaseQueries \o topics
                     ELSE BaseQueries)
    /\ dvSearched' = <<>>
    /\ dvAll' = <<>>
    /\ dvResult' = <<>>
    /\ dvPc' = "search"
    /\ UNCHANGED notDiv

\* lines 101-103: one turn of the loop over the queries
DivSearch(chunks) ==
    /\ dvPc = "search"
    /\ Len(dvSearched) < Len(dvQueries)
    /\ dvSearched' = Append(dvSearched, dvQueries[Len(dvSearched) + 1])
    /\ dvAll' = dvAll \o chunks
    /\ UNCHANGED <<dvTopics, dvNeeded, dvQueries, dvResult, dvPc>>
    /\ UNCHANGED notDiv

\* lines 105-114: the duplicates removed, the result cut and returned
DivReturn ==
    /\ dvPc = "search"
    /\ Len(dvSearched) = Len(dvQueries)
    /\ dvResult' = Truncated(UniqueChunks(dvAll, {}, <<>>), Cap(dvNeeded))
    /\ dvPc' = "done"
    /\ UNCHANGED <<dvTopics, dvNeeded, dvQueries, dvSearched, dvAll>>
    /\ UNCHANGED notDiv

NextDiv ==
    \/ \E topics \in TopicLists, needed \in {1, MaxNeeded} :
          DivCall(topics, needed)
    \/ \E chunks \in SearchResults(Len(dvSearched) + 1) : DivSearch(chunks)
    \/ DivReturn

\* ---- properties of get_diverse_content_from_chapter

LongChunk(chunk) == chunk.text.len > MinText

\* The places of all_chunks holding the first chunk with its key, among
\* all chunks or among the long ones only.
FirstPlaces(longOnly) ==
    { p \in 1..Len(dvAll) :
        /\ longOnly => LongChunk(dvAll[p])
        /\ \A q \in 1..(p - 1) : TextKey(dvAll[q]) # TextKey(dvAll[p]) }

\* The result is the chunks at the first of these places, in their order,
\* as many as the cap allows.
ResultIsFirstOf(places) ==
    LET n == IF Cardinality(places) < Cap(dvNeeded)
             THEN Cardinality(places) ELSE Cap(dvNeeded)
    IN  /\ Len(dvResult) = n
        /\ \A i \in 1..n : \E p \in places :
              /\ Cardinality({ q \in places : q < p }) = i - 1
              /\ dvResult[i] = dvAll[p]

NoEqualKeys ==
    \A i, j \in 1..Len(dvResult) :
        i # j => TextKey(dvResult[i]) # TextKey(dvResult[j])

OneSearchPerQuery ==
    dvSearched = BaseQueries \o dvTopics

\* C28 as stated: the result of get_diverse_content_from_chapter comes of
\* one search per query, the fixed ones and then the focus topics, has no
\* two chunks with equal first 100 characters, holds for every key among
\* the chunks found its first occurrence, in the order found, and is at
\* most max(2 * questions_needed, 10) long.
C28_FirstOccurrenceOfEveryKey ==
    dvPc = "done" =>
        /\ OneSearchPerQuery
        /\ NoEqualKeys
        /\ Len(dvResult) <= Cap(dvNeeded)
        /\ ResultIsFirstOf(FirstPlaces(FALSE))

\* C28 as the code has it: the same, of the keys of the chunks whose
\* text is longer than 50 characters; a shorter chunk is never returned.
C28_FirstOccurrenceOfLongChunks ==
    dvPc = "done" =>
        /\ OneSearchPerQuery
        /\ NoEqualKeys
        /\ Len(dvResult) <= Cap(dvNeeded)
        /\ ResultIsFirstOf(FirstPlaces(TRUE))
        /\ \A i \in 1..Len(dvResult) : LongChunk(dvResult[i])

\* A call with focus topics that found a key twice and a short chunk and
\* cut its result at the cap.
C28_Witness ==
    /\ dvPc = "done"
    /\ dvTopics # <<>>
    /\ Len(dvResult) = Cap(dvNeeded)
    /\ Cardinality(FirstPlaces(TRUE)) > Cap(dvNeeded)
    /\ \E p, q \in 1..Len(dvAll) :
          p < q /\ TextKey(dvAll[p]) = TextKey(dvAll[q]) /\ LongChunk(dvAll[p])
    /\ \E p \in 1..Len(dvAll) : ~LongChunk(dvAll[p])


\* ---------------------------------------------------------------------
\* app/worker.py: ingest_pdf, from the pages of the file to the store
\* ---------------------------------------------------------------------

\* A text whose cleaned form has a window of DefaultSize spaces: clean()
\* leaves the spaces that stood between the characters it removes.
BlankWindowText ==
    [i \in 1..(DefaultSize - DefaultOverlap) |-> "a"]
    \o [i \in 1..(2 * DefaultSize) |-> IF i % 2 = 1 THEN " " ELSE "@"]
    \o <<"a">>

\* The text of the even pages of a file of several pages
Filler == <<"a", ".", " ">>

\* The files read: pages of any short text and of the filler in turn, or
\* one page of a long text.
PipeDocs ==
    {[raw |-> r, pages |-> n] : r \in RawTexts, n \in {1, MaxPages}}
    \cup {[raw |-> r, pages |-> 1] : r \in ScenarioTexts \cup {BlankWindowText}}

\* page.extract_text() of page p
PageText(p) == IF p % 2 = 1 THEN wpRaw ELSE Filler

\* model.encode(...): the vector of a text
Embedding(text) == [vec |-> text]

\* embed_batch(texts): the texts that are blank once stripped are left out
EmbedBatch(texts) ==
    IF texts = <<>> THEN <<>>
    ELSE LET stripped == [k \in 1..Len(texts) |-> Strip(texts[k])]
             non_empty_texts == SelectSeq(stripped, LAMBDA t : t # <<>>)
         IN  [k \in 1..Len(non_empty_texts) |-> Embedding(non_empty_texts[k])]

\* chunks[i:i + batch_size] of the batch after wpBatch batches
PipeBatch ==
    SubSeq(wpChunks, wpBatch * WkBatchSize + 1,
           IF (wpBatch + 1) * WkBatchSize < Len(wpChunks)
           THEN (wpBatch + 1) * WkBatchSize ELSE Len(wpChunks))

\* metadata = [{"text": text, "page": page_num, ...} for ...]
Metadata(batch) ==
    [k \in 1..Len(batch) |->
        [data |-> [text |-> batch[k].text, page |-> batch[k].page]]]

InitPipeIdle ==
    /\ wpRaw = <<>>
    /\ wpPages = 0
    /\ wpPage = 0
    /\ wpChunks = <<>>
    /\ wpBatch = 0
    /\ wpJob = "none"
    /\ wpDocStatus = "none"
    /\ wpPc = "idle"

\* ingest_pdf is entered for a file: job_status[task_id] = "processing"
InitPipe ==
    \E d \in PipeDocs :
        /\ wpRaw = d.raw
        /\ wpPages = d.pages
        /\ wpPage = 0
        /\ wpChunks = <<>>
        /\ wpBatch = 0
        /\ wpJob = "processing"
        /\ wpDocStatus = "processing"
        /\ wpPc = "pages"

\* stream_pages: a page without text is not yielded
PipeSkipPage ==
    /\ wpPc = "pages"
    /\ wpPage < wpPages
    /\ Strip(PageText(wpPage + 1)) = <<>>
    /\ wpPage' = wpPage + 1
    /\ UNCHANGED <<wpRaw, wpPages, wpChunks, wpBatch, wpJob, wpDocStatus, wpPc>>
    /\ UNCHANGED notPipe

\* for page_num, text in stream_pages(file_path): chunker.chunks(text) is
\* entered, with the size and the overlap of TextChunker()
PipeChunkPage ==
    /\ wpPc = "pages"
    /\ wpPage < wpPages
    /\ Strip(PageText(wpPage + 1)) # <<>>
    /\ wpPage' = wpPage + 1
    /\ wpPc' = "chunking"
    /\ chText' = Clean(PageText(wpPage + 1))
    /\ chSize' = DefaultSize
    /\ chOlap' = DefaultOverlap
    /\ chStart' = 0
    /\ chIdx' = 0
    /\ chOut' = <<>>
    /\ chPc' = "loop"
    /\ chIter' = 0
    /\ UNCHANGED <<wpRaw, wpPages, wpChunks, wpBatch, wpJob, wpDocStatus>>
    /\ UNCHANGED <<storeVars, jobVars, planVars, parseVars, tplVars,
                   searchVars, pipeOthers>>

\* for chunk_text, chunk_idx in page_chunks: chunks.append(...), when the
\* generator is exhausted
PipePageDone ==
    /\ wpPc = "chunking"
    /\ chPc = "done"
    /\ wpChunks' = wpChunks \o
          [k \in 1..Len(chOut) |-> [text |-> chOut[k].text, page |-> wpPage]]
    /\ wpPc' = IF wpPage < wpPages THEN "pages" ELSE "embed"
    /\ UNCHANGED <<wpRaw, wpPages, wpPage, wpBatch, wpJob, wpDocStatus>>
    /\ UNCHANGED notPipe

\* The last page was one without text.
PipePagesEnd ==
    /\ wpPc = "pages"
    /\ wpPage = wpPages
    /\ wpPc' = "embed"
    /\ UNCHANGED <<wpRaw, wpPages, wpPage, wpChunks, wpBatch, wpJob,
                   wpDocStatus>>
    /\ UNCHANGED notPipe

\* lines 110-125: embeddings = embed_batch(texts); metadata = [...];
\* add_embeddings(embeddings, metadata) is entered
PipeEmbedAdd ==
    /\ wpPc = "embed"
    /\ wpBatch * WkBatchSize < Len(wpChunks)
    /\ LET batch == PipeBatch
           texts == [k \in 1..Len(batch) |-> batch[k].text]
       IN /\ callVecs' = [callVecs EXCEPT ![1] = EmbedBatch(texts)]
          /\ callMetas' = [callMetas EXCEPT ![1] = Metadata(batch)]
    /\ nCalls' = nCalls + 1
    /\ callPc' = [callPc EXCEPT ![1] = "exists"]
    /\ callErr' = [callErr EXCEPT ![1] = "none"]
    /\ callAt' = [callAt EXCEPT ![1] = "none"]
    /\ callIx' = [callIx EXCEPT ![1] = <<>>]
    /\ callStart' = [callStart EXCEPT ![1] = 0]
    /\ wpPc' = "adding"
    /\ UNCHANGED <<indexExists, indexFile, meta>>
    /\ UNCHANGED <<wpRaw, wpPages, wpPage, wpChunks, wpBatch, wpJob,
                   wpDocStatus>>
    /\ UNCHANGED <<jobVars, chunkVars, planVars, parseVars, tplVars,
                   searchVars, pipeOthers>>

\* A statement of add_embeddings
PipeStoreStep ==
    /\ wpPc = "adding"
    /\ \/ CheckExists(1)
       \/ CreateIndex(1)
       \/ LoadIndex(1)
       \/ WriteIndex(1)
       \/ MetaCommit(1)
       \/ CallRaises(1)

\* add_embeddings has returned: the next turn of the loop
PipeBatchDone ==
    /\ wpPc = "adding"
    /\ callPc[1] = "done"
    /\ wpBatch' = wpBatch + 1
    /\ wpPc' = "embed"
    /\ UNCHANGED <<wpRaw, wpPages, wpPage, wpChunks, wpJob, wpDocStatus>>
    /\ UNCHANGED notPipe

\* lines 127-138: update_document_status(doc_id, "completed");
\* job_status[task_id] = "completed"
PipeFinish ==
    /\ wpPc = "embed"
    /\ wpBatch * WkBatchSize >= Len(wpChunks)
    /\ wpDocStatus' = "completed"
    /\ wpJob' = "completed"
    /\ wpPc' = "ended"
    /\ UNCHANGED <<wpRaw, wpPages, wpPage, wpChunks, wpBatch>>
    /\ UNCHANGED notPipe

\* lines 140-144: embed_batch or add_embeddings raised:
\* job_status[task_id] = f"failed: ..."; update_document_status(doc_id, "failed")
PipeFails ==
    /\ \/ wpPc = "embed" /\ wpBatch * WkBatchSize < Len(wpChunks)
       \/ wpPc = "adding" /\ callPc[1] = "raised"
    /\ wpDocStatus' = "failed"
    /\ wpJob' = "failed"
    /\ wpPc' = "ended"
    /\ UNCHANGED <<wpRaw, wpPages, wpPage, wpChunks, wpBatch>>
    /\ UNCHANGED notPipe

NextPipe ==
    \/ PipeSkipPage
    \/ PipeChunkPage
    \/ wpPc = "chunking" /\ ChunkStep
    \/ wpPc = "chunking" /\ ChunksReturn
    \/ PipePageDone
    \/ PipePagesEnd
    \/ PipeEmbedAdd
    \/ PipeStoreStep
    \/ PipeBatchDone
    \/ PipeFinish
    \/ PipeFails

\* ---- properties of the batches of ingest_pdf

\* C30: in every batch of ingest_pdf the vectors passed to add_embeddings
\* are as many as the metadata records passed with them, the k-th vector
\* that of the text of the k-th record, which is the text of the k-th
\* chunk of the batch and is not blank; so every row stored when a batch
\* has been added has the vector of its text at its id.
C30_VectorsMatchMetadata ==
    /\ wpPc = "adding" =>
          /\ Len(callVecs[1]) = Len(callMetas[1])
          /\ Len(callMetas[1]) = Len(PipeBatch)
          /\ \A k \in 1..Len(callMetas[1]) :
                /\ callMetas[1][k].data.text = PipeBatch[k].text
                /\ Strip(PipeBatch[k].text) # <<>>
                /\ k <= Len(callVecs[1])
                /\ callVecs[1][k] = Embedding(callMetas[1][k].data.text)
    /\ wpPc = "embed" =>
          \A id \in DOMAIN meta :
              /\ id + 1 <= Len(indexFile)
              /\ indexFile[id + 1] = Embedding(meta[id].data.text)

\* Two batches have been stored, of a file whose pages gave more chunks
\* than one batch holds: every chunk has its vector and its row.
C30_Witness ==
    /\ wpPc = "embed"
    /\ wpBatch = 2
    /\ Len(wpChunks) > WkBatchSize
    /\ Len(indexFile) = Len(wpChunks)
    /\ DOMAIN meta = 0..(Len(wpChunks) - 1)

\* The components that are not at work.
InitRestIdle ==
    /\ InitGenIdle
    /\ InitIngIdle
    /\ InitChatIdle
    /\ InitDivIdle
    /\ InitPipeIdle
\* Nothing but the store and the jobs is at work.
InitOthersIdle ==
    /\ InitChunkIdle /\ InitPlanIdle /\ InitParseIdle /\ InitTplIdle
    /\ InitSearchIdle
    /\ InitRestIdle
Init == InitStore /\ InitJobs /\ InitOthersIdle

\* A chunks() call on a short text, and one on a text of the scenario.
InitShortText ==
    /\ InitStore /\ InitJobs /\ InitChunk
    /\ InitPlanIdle /\ InitParseIdle /\ InitTplIdle
    /\ InitSearchIdle
    /\ InitRestIdle
InitScenarioText ==
    /\ InitStore /\ InitJobs /\ InitScenario
    /\ InitPlanIdle /\ InitParseIdle /\ InitTplIdle
    /\ InitSearchIdle
    /\ InitRestIdle
\* A call of calculate_question_distribution.
InitPlanCall ==
    /\ InitStore /\ InitJobs /\ InitChunkIdle
    /\ InitPlan /\ InitParseIdle /\ InitTplIdle
    /\ InitSearchIdle
    /\ InitRestIdle
\* A call of parse_llm_response_to_questions.
InitParseCall ==
    /\ InitStore /\ InitJobs /\ InitChunkIdle
    /\ InitPlanIdle /\ InitParse /\ InitTplIdle
    /\ InitSearchIdle
    /\ InitRestIdle
SpecParse == InitParseCall /\ [][NextParse]_vars
\* A call of create_question_paper, and of the validator on its result.
InitTplCall ==
    /\ InitStore /\ InitJobs /\ InitChunkIdle
    /\ InitPlanIdle /\ InitParseIdle /\ InitTpl
    /\ InitSearchIdle
    /\ InitRestIdle
SpecTpl == InitTplCall /\ [][NextTpl]_vars
SpecPlan == InitPlanCall /\ [][NextPlan]_vars
SpecChunk == InitShortText /\ [][NextChunk]_vars
SpecScenario == InitScenarioText /\ [][NextChunk]_vars
SpecStore == Init /\ [][NextStore]_vars
SpecStoreSeq == Init /\ [][NextStoreSeq]_vars
SpecJobs == Init /\ [][NextJobs]_vars
SpecQuery == Init /\ [][NextQuery]_vars
SpecSearch == Init /\ [][NextSearch]_vars
SpecSearchSeq == Init /\ [][NextSearchSeq]_vars
\* What is idle in a behaviour of one of the components added later.
InitBaseIdle ==
    /\ InitStore /\ InitJobs /\ InitChunkIdle
    /\ InitPlanIdle /\ InitParseIdle /\ InitTplIdle
    /\ InitSearchIdle
\* A run of generate_professional_question_paper.
InitGenCall ==
    InitBaseIdle /\ InitGen /\ InitIngIdle /\ InitChatIdle /\ InitDivIdle /\ InitPipeIdle
SpecGen == InitGenCall /\ [][NextGen]_vars
\* Runs of ingest_pdf, one after the other.
InitIngestRuns ==
    InitBaseIdle /\ InitGenIdle /\ InitIngIdle /\ InitChatIdle /\ InitDivIdle /\ InitPipeIdle
SpecIngest == InitIngestRuns /\ [][NextIngest]_vars
\* Calls of chat_sync, one after the other.  Time passes, and the caller
\* takes its next step when it can; the thread may stay in the inner call.
InitChatCalls ==
    InitBaseIdle /\ InitGenIdle /\ InitIngIdle /\ InitChatIdle /\ InitDivIdle /\ InitPipeIdle
SpecChat ==
    /\ InitChatCalls
    /\ [][NextChat]_vars
    /\ WF_vars(Tick)
    /\ WF_vars(CallerStep)

\* A job's function keeps running until it returns: every call it makes
\* returns or raises.  process_queue is a thread that loops for ever.
RunStep(r) ==
    \/ Advance(r)
    \/ Complete(r)
    \/ \E e \in ErrTexts : Raise(r, e)
    \/ WkComplete(r)
    \/ \E e \in ErrTexts : WkRaise(r, e)
QueueStep == ProcessQueueDone \/ \E e \in ErrTexts : ProcessQueueRaise(e)
SpecJobsFair ==
    /\ Init
    /\ [][NextFair]_vars
    /\ \A r \in FairRuns : WF_vars(RunStep(r))
    /\ WF_vars(QueueStep)

\* One call of get_diverse_content_from_chapter.
InitDivCall ==
    /\ InitBaseIdle /\ InitGenIdle /\ InitIngIdle /\ InitChatIdle
    /\ InitDivIdle /\ InitPipeIdle
SpecDiv == InitDivCall /\ [][NextDiv]_vars

\* One run of worker.ingest_pdf, page by page and batch by batch.
InitPipeRun ==
    /\ InitBaseIdle /\ InitGenIdle /\ InitIngIdle /\ InitChatIdle
    /\ InitDivIdle /\ InitPipe
SpecPipe == InitPipeRun /\ [][NextPipe]_vars

====
